---------------------------- MODULE Spec2Model ----------------------------
(***************************************************************************)
(* Model of the node report and of the web client that shows the cluster.  *)
(*                                                                         *)
(* server/bash_scripts/CPU_RAM.sh: one aggregation cycle of the            *)
(* node report.  The script captures two text blobs (sinfo: one line per   *)
(* node, scontrol: key=value tokens), runs a first awk pass that prints    *)
(* the cluster totals and hands the CPU ranking to an asynchronous         *)
(* process substitution (sort | head -5 | awk), and then a second awk      *)
(* pipeline that prints the memory ranking.                                *)
(*                                                                         *)
(* webapp/src/pages: the GPU page (cards of GPU types that expand to the   *)
(* job queue of the type), the dashboard and the nodes page (cluster       *)
(* statistics and node cards computed from the list of nodes).  Each has   *)
(* its own specification; the variables of the others stay as they start.  *)
(***************************************************************************)
EXTENDS Integers, Sequences, FiniteSets, TLC

VARIABLES
    env,          \* what sinfo / scontrol answer in this cycle (the two blobs, exit codes)
    pc,           \* position of the script
    tmpFiles,     \* temporary files that exist on disk
    sinfoFile,    \* contents of "$SINFO"
    scontrolFile, \* contents of "$SCONTROL"
    awk1,         \* variables of the first awk program
    ln,           \* number of summary lines the running awk has consumed
    errPipe,      \* lines the first awk wrote to /dev/stderr (the pipe of >(...))
    cpc,          \* position of the process substitution  sort | head -5 | awk
    cRows,        \* what sort | head -5 hands to the last awk of the substitution
    awk2,         \* variables of the second awk program
    pipe2,        \* lines the second awk printed into its pipeline
    sorted2,      \* what sort | head -5 of the second pipeline hands on
    out,          \* the script's standard output, in the order it was written
    exitCode,     \* exit status of the script (-1 while running)
    cycle,        \* 1 for the first run, 2 for a second run on the same blobs
    prevOut,      \* standard output of the previous run
    gpuServer,    \* GPU page: the GPU types GET /gpu answers with
    gpuPage,      \* GPU page: the state of the component GPUStatus
    gpuNet,       \* GPU page: the queue requests that are in flight
    dashboard,    \* the state of the component Dashboard
    dashNet,      \* Dashboard: the fetch cycles that are in flight
    dashLog,      \* Dashboard: history of its fetch cycles (not program state)
    nodesPage,    \* the state of the component Nodes
    aiPage,       \* the state of the component AIAssistant
    aiNet,        \* AI assistant: the requests that are in flight
    aiLog,        \* AI assistant: how many sends, replies and predictions so far
    filter,       \* the job-history filter script-2.sh: its state and its files
    collector     \* the job-history collector: the script and its sacct process

scriptVars == << env, pc, tmpFiles, sinfoFile, scontrolFile, awk1, ln, errPipe, cpc,
                 cRows, awk2, pipe2, sorted2, out, exitCode, cycle, prevOut >>

gpuVars == << gpuServer, gpuPage, gpuNet >>

dashVars == << dashboard, dashNet, dashLog >>

aiVars == << aiPage, aiNet, aiLog >>

\* the other programs: the AI assistant and the two job-history scripts
otherVars == << aiVars, filter, collector >>

webVars == << gpuVars, dashVars, nodesPage, otherVars >>

vars == << scriptVars, webVars >>

----------------------------------------------------------------------------
(* Bounds of the model *)

\* detail blob: at most this many key=value tokens
MaxToks == 4
\* summary blob: at most this many lines when drawn from SummaryLines
MaxLines == 2
\* summary blob: at most this many copies of one line (a node listed once per partition)
MaxCopies == 6
\* scontrol wraps a node's record: a line break after this many tokens
WrapAt == 2

(* Program constants *)

\* head -5
TopK == 5
\* printf "%010d|..." of the first pass
PadCpu == 10
\* printf "%012d|..." of the second pass
PadMem == 12

----------------------------------------------------------------------------
(* Text *)

Names == {"n1", "n10", "n2"}

\* the bytes of a node name (sort compares lines byte by byte)
Bytes(name) ==
    CASE name = "n1"  -> << 110, 49 >>
      [] name = "n10" -> << 110, 49, 48 >>
      [] name = "n2"  -> << 110, 50 >>
      [] OTHER        -> << >>

NameOf(bytes) ==
    IF \E n \in Names : Bytes(n) = bytes
    THEN CHOOSE n \in Names : Bytes(n) = bytes
    ELSE ""

IsDigit(b) == b >= 48 /\ b <= 57

RECURSIVE Digits(_)
\* printf "%d" of a non-negative integer
Digits(n) == IF n < 10 THEN << 48 + n >> ELSE Digits(n \div 10) \o << 48 + (n % 10) >>

RECURSIVE ZeroPad(_, _)
ZeroPad(s, w) == IF Len(s) >= w THEN s ELSE ZeroPad(<< 48 >> \o s, w)

\* printf "%0<w>d"
FmtPad(n, w) == IF n < 0 THEN << 45 >> \o ZeroPad(Digits(-n), w - 1)
                         ELSE ZeroPad(Digits(n), w)

\* printf "%d"
FmtInt(n) == IF n < 0 THEN << 45 >> \o Digits(-n) ELSE Digits(n)

RECURSIVE DigitsValue(_, _)
DigitsValue(s, acc) ==
    IF s = << >> \/ ~IsDigit(Head(s)) THEN acc
    ELSE DigitsValue(Tail(s), 10 * acc + (Head(s) - 48))

\* awk's  text + 0  and sort -n: the leading number of the text, 0 when there is none
StrToNum(s) ==
    IF s # << >> /\ Head(s) = 45 THEN 0 - DigitsValue(Tail(s), 0)
    ELSE DigitsValue(s, 0)

RECURSIVE SplitBar(_)
\* awk -F"|" : the fields of a line
SplitBar(s) ==
    IF \A i \in 1..Len(s) : s[i] # 124 THEN << s >>
    ELSE LET p == CHOOSE i \in 1..Len(s) : s[i] = 124 /\ \A j \in 1..(i-1) : s[j] # 124
         IN  << SubSeq(s, 1, p - 1) >> \o SplitBar(SubSeq(s, p + 1, Len(s)))

\* $k of a split line: "" when the line has fewer fields
FieldOf(fs, k) == IF k <= Len(fs) THEN fs[k] ELSE << >>

RECURSIVE BytesLess(_, _)
\* memcmp order of two texts, the shorter first when it is a prefix
BytesLess(a, b) ==
    IF b = << >> THEN FALSE
    ELSE IF a = << >> THEN TRUE
    ELSE IF Head(a) # Head(b) THEN Head(a) < Head(b)
    ELSE BytesLess(Tail(a), Tail(b))

----------------------------------------------------------------------------
(* Maps (awk associative arrays) *)

EmptyMap == [x \in {} |-> 0]

MapPut(m, k, v) == [x \in (DOMAIN m) \cup {k} |-> IF x = k THEN v ELSE m[x]]


----------------------------------------------------------------------------
(* The two blobs *)

\* A token of the detail blob, key=value.  name is the value of a NodeName
\* token; a memory token's value is the number n, or a text that is no
\* number (FreeMem=N/A) when isnum is FALSE.
NodeTok(name)  == [key |-> "NodeName", name |-> name, isnum |-> FALSE, n |-> 0]
MemTok(key, v) == [key |-> key, name |-> "", isnum |-> TRUE, n |-> v]
NaTok(key)     == [key |-> key, name |-> "", isnum |-> FALSE, n |-> 0]

\* val + 0
ToNum(tok) == IF tok.isnum THEN tok.n ELSE 0

\* A line of the summary blob, name|A/I/O/T|mem: nf pipe-delimited fields, the
\* second one split at "/" into cpus.
SLine(nf, name, cpus, mem) == [nf |-> nf, name |-> name, cpus |-> cpus, mem |-> mem]

\* $1
Field1(line) == IF line.nf >= 1 THEN line.name ELSE ""
\* split($2, c, "/")
Field2(line) == IF line.nf >= 2 THEN line.cpus ELSE << >>
\* $3 + 0
Field3(line) == IF line.nf >= 3 THEN line.mem ELSE 0
\* c[k] + 0
CpuTok(c, k) == IF k <= Len(c) THEN c[k] ELSE 0

----------------------------------------------------------------------------
(* First awk program, BEGIN: the scan of the detail blob *)

ScanInit ==
    [cur |-> "", seen |-> {}, real |-> EmptyMap, alloc |-> EmptyMap, freem |-> EmptyMap]

\* ScanToken1 that keeps the first node marker as the current node
ScanToken1FirstMarker(st, tok) ==
    IF tok.key = "NodeName"
    THEN [st EXCEPT !.cur = IF @ = "" THEN tok.name ELSE @, !.seen = @ \cup {tok.name}]
    ELSE IF tok.key = "RealMemory" /\ st.cur # ""
         THEN [st EXCEPT !.real = MapPut(@, st.cur, ToNum(tok))]
    ELSE IF tok.key = "AllocMem" /\ st.cur # ""
         THEN [st EXCEPT !.alloc = MapPut(@, st.cur, ToNum(tok))]
    ELSE IF tok.key = "FreeMem" /\ st.cur # ""
         THEN [st EXCEPT !.freem = MapPut(@, st.cur, ToNum(tok))]
    ELSE st

ScanToken1(st, tok) ==
    IF tok.key = "NodeName" THEN [st EXCEPT !.cur = tok.name, !.seen = @ \cup {tok.name}]
    ELSE IF tok.key = "RealMemory" /\ st.cur # ""
         THEN [st EXCEPT !.real = MapPut(@, st.cur, ToNum(tok))]
    ELSE IF tok.key = "AllocMem" /\ st.cur # ""
         THEN [st EXCEPT !.alloc = MapPut(@, st.cur, ToNum(tok))]
    ELSE IF tok.key = "FreeMem" /\ st.cur # ""
         THEN [st EXCEPT !.freem = MapPut(@, st.cur, ToNum(tok))]
    ELSE st

RECURSIVE ScanLine1(_, _)
\* for (i=1; i<=n; i++) over the tokens of one line
ScanLine1(st, toks) ==
    IF toks = << >> THEN st ELSE ScanLine1(ScanToken1(st, Head(toks)), Tail(toks))

RECURSIVE ScanDetail1PerLine(_, _)
\* ScanDetail1 that forgets the current node at the end of every line
ScanDetail1PerLine(st, lines) ==
    IF lines = << >> THEN st
    ELSE ScanDetail1PerLine(ScanLine1([st EXCEPT !.cur = ""], Head(lines)), Tail(lines))

RECURSIVE ScanDetail1(_, _)
\* while ((getline line < SCTRL) > 0)
ScanDetail1(st, lines) ==
    IF lines = << >> THEN st ELSE ScanDetail1(ScanLine1(st, Head(lines)), Tail(lines))

(* First awk program, main rule: one summary line *)

\* Avail1 with the precedence reversed: RealMemory-AllocMem before FreeMem
Avail1RealFirst(node, d) ==
    IF node \in DOMAIN d.real /\ node \in DOMAIN d.alloc
    THEN d.real[node] - d.alloc[node]
    ELSE IF node \in DOMAIN d.freem THEN d.freem[node]
    ELSE 0

\* Prefer FreeMem; else RealMemory-AllocMem; else unknown (0)
Avail1(node, d) ==
    IF node \in DOMAIN d.freem THEN d.freem[node]
    ELSE IF node \in DOMAIN d.real /\ node \in DOMAIN d.alloc
         THEN d.real[node] - d.alloc[node]
    ELSE 0

\* if (avail < 0) avail = 0
Clamp1(avail) == IF avail < 0 THEN 0 ELSE avail

\* (node in real) ? real[node] : mem_total
MemTotal1(node, d, mem_total) ==
    IF node \in DOMAIN d.real THEN d.real[node] ELSE mem_total

Awk1Init ==
    [ d |-> ScanInit, total_cpus |-> 0, total_mem |-> 0,
      idle_cpu |-> EmptyMap, total_cpu_per_node |-> EmptyMap,
      avail_mem |-> EmptyMap, realmem_disp |-> EmptyMap, nodes |-> << >> ]

Pass1Line(a, line) ==
    LET node      == Field1(line)
        c         == Field2(line)
        i         == CpuTok(c, 2)
        t         == CpuTok(c, 4)
        mem_total == Field3(line)
    IN  [ a EXCEPT
            !.total_cpus         = @ + t,
            !.total_mem          = @ + MemTotal1(node, a.d, mem_total),
            !.idle_cpu           = MapPut(@, node, i),
            !.total_cpu_per_node = MapPut(@, node, t),
            !.avail_mem          = MapPut(@, node, Clamp1(Avail1(node, a.d))),
            !.realmem_disp       = MapPut(@, node, MemTotal1(node, a.d, mem_total)),
            !.nodes              = Append(@, node) ]

\* printf "%010d|%s|%d\n", idle_cpu[k], k, total_cpu_per_node[k] > "/dev/stderr"
FmtCpuLine(idle, node, total) ==
    FmtPad(idle, PadCpu) \o << 124 >> \o Bytes(node) \o << 124 >> \o FmtInt(total)

\* every order in which  for (k in idle_cpu)  may visit the keys
KeyOrders(S) ==
    { s \in [1..Cardinality(S) -> S] : \A i, j \in DOMAIN s : i # j => s[i] # s[j] }

----------------------------------------------------------------------------
(* sort -t"|" -k1,1nr | head -5 *)

\* the order of sort -t"|" -k1,1nr: field 1 numerically, larger first; lines
\* whose keys are equal are ordered by the last-resort comparison of the
\* whole lines, byte by byte, ascending
SortBefore(x, y) ==
    LET kx == StrToNum(FieldOf(SplitBar(x), 1))
        ky == StrToNum(FieldOf(SplitBar(y), 1))
    IN  kx > ky \/ (kx = ky /\ BytesLess(x, y))

RECURSIVE SortInsert(_, _)
SortInsert(x, s) ==
    IF s = << >> THEN << x >>
    ELSE IF SortBefore(Head(s), x) THEN << Head(s) >> \o SortInsert(x, Tail(s))
    ELSE << x >> \o s

RECURSIVE SortLines(_)
SortLines(s) == IF s = << >> THEN << >> ELSE SortInsert(Head(s), SortLines(Tail(s)))

\* head -k
HeadK(s, k) == SubSeq(s, 1, IF Len(s) < k THEN Len(s) ELSE k)

----------------------------------------------------------------------------
(* Second awk program *)

ScanToken2(st, tok) ==
    IF tok.key = "NodeName" THEN [st EXCEPT !.cur = tok.name]
    ELSE IF tok.key = "RealMemory" /\ st.cur # ""
         THEN [st EXCEPT !.real = MapPut(@, st.cur, ToNum(tok))]
    ELSE IF tok.key = "AllocMem" /\ st.cur # ""
         THEN [st EXCEPT !.alloc = MapPut(@, st.cur, ToNum(tok))]
    ELSE IF tok.key = "FreeMem" /\ st.cur # ""
         THEN [st EXCEPT !.freem = MapPut(@, st.cur, ToNum(tok))]
    ELSE st

RECURSIVE ScanLine2(_, _)
ScanLine2(st, toks) ==
    IF toks = << >> THEN st ELSE ScanLine2(ScanToken2(st, Head(toks)), Tail(toks))

RECURSIVE ScanDetail2(_, _)
ScanDetail2(st, lines) ==
    IF lines = << >> THEN st ELSE ScanDetail2(ScanLine2(st, Head(lines)), Tail(lines))

\* Avail2 without the fallback to RealMemory - AllocMem
Avail2NoFallback(node, d) ==
    IF node \in DOMAIN d.freem THEN d.freem[node] ELSE 0

\* (node in freem) ? freem[node] : ((node in real && node in alloc) ? real-alloc : 0)
Avail2(node, d) ==
    IF node \in DOMAIN d.freem THEN d.freem[node]
    ELSE IF node \in DOMAIN d.real /\ node \in DOMAIN d.alloc
         THEN d.real[node] - d.alloc[node]
    ELSE 0

\* Clamp2 without the clamp
Clamp2Missing(avail) == avail

\* if (avail < 0) avail = 0
Clamp2(avail) == IF avail < 0 THEN 0 ELSE avail

\* MemTotal2 that always shows the summary value
MemTotal2Summary(node, d, mem3) == mem3

\* (node in real) ? real[node] : ($3 + 0)
MemTotal2(node, d, mem3) ==
    IF node \in DOMAIN d.real THEN d.real[node] ELSE mem3

\* printf "%012d|%s|%d\n", avail, node, mem_total
FmtMemLine(avail, node, mem_total) ==
    FmtPad(avail, PadMem) \o << 124 >> \o Bytes(node) \o << 124 >> \o FmtInt(mem_total)

Pass2Line(d, line) ==
    LET node == Field1(line)
    IN  FmtMemLine(Clamp2(Avail2(node, d)), node, MemTotal2(node, d, Field3(line)))

----------------------------------------------------------------------------
(* Standard output: one record per printed line *)

OutRec(kind, node, a, b) == [kind |-> kind, node |-> node, a |-> a, b |-> b]

\* END of the first awk: totals and the header of the CPU ranking
TotalsText(a) ==
    << OutRec("totals_hdr", "", 0, 0),
       OutRec("total_cpus", "", a.total_cpus, 0),
       OutRec("total_mem", "", a.total_mem, 0),
       OutRec("blank", "", 0, 0),
       OutRec("cpu_hdr", "", 0, 0) >>

\* last awk of the process substitution: BEGIN{print ""} and one row per line,
\* $2, $1+0, $3+0
CpuRow(text) ==
    LET f == SplitBar(text)
    IN  OutRec("cpu_row", NameOf(FieldOf(f, 2)), StrToNum(FieldOf(f, 1)), StrToNum(FieldOf(f, 3)))

CpuText(rows) ==
    << OutRec("blank", "", 0, 0) >> \o [k \in 1..Len(rows) |-> CpuRow(rows[k])]

\* last awk of the second pipeline: blank line, header, one row per line
MemRow(text) ==
    LET f == SplitBar(text)
    IN  OutRec("mem_row", NameOf(FieldOf(f, 2)), StrToNum(FieldOf(f, 1)), StrToNum(FieldOf(f, 3)))

MemText(rows) ==
    << OutRec("blank", "", 0, 0), OutRec("mem_hdr", "", 0, 0) >>
        \o [k \in 1..Len(rows) |-> MemRow(rows[k])]

----------------------------------------------------------------------------
(* Inputs of a cycle *)

RECURSIVE Wrap(_)
\* the detail blob as scontrol prints it: WrapAt tokens to a line
Wrap(toks) ==
    IF Len(toks) <= WrapAt THEN (IF toks = << >> THEN << >> ELSE << toks >>)
    ELSE << SubSeq(toks, 1, WrapAt) >> \o Wrap(SubSeq(toks, WrapAt + 1, Len(toks)))

RECURSIVE Flatten(_)
Flatten(lines) == IF lines = << >> THEN << >> ELSE Head(lines) \o Flatten(Tail(lines))

SeqsUpTo(S, n) == UNION { [1..k -> S] : k \in 0..n }

DetailTokens ==
    { NodeTok("n1"), NodeTok("n2"),
      MemTok("RealMemory", 4), MemTok("AllocMem", 1), MemTok("AllocMem", 6),
      MemTok("FreeMem", 7), NaTok("FreeMem") }

LineN1  == SLine(3, "n1",  << 1, 2, 0, 3 >>, 5)
LineN2  == SLine(3, "n2",  << 0, 2, 0, 2 >>, 8)
LineN10 == SLine(3, "n10", << 2, 2, 0, 4 >>, 5)
\* n2|1/2 : two fields, two CPU tokens
LineShort == SLine(2, "n2", << 1, 2 >>, 0)
\* n10|0/1/0/1/9|5 : five CPU tokens
LineLong == SLine(3, "n10", << 0, 1, 0, 1, 9 >>, 5)

SummaryLines == { LineN1, LineN2, LineN10, LineShort, LineLong }
DupLines == { LineN1, LineN2 }

DetailSamples ==
    { << >>,
      << NodeTok("n1"), MemTok("RealMemory", 4), MemTok("AllocMem", 1) >>,
      << NodeTok("n2"), MemTok("FreeMem", 7), NodeTok("n10"), MemTok("RealMemory", 4),
         MemTok("AllocMem", 6) >> }

\* What the commands of a cycle do: exit status and output of sinfo and of
\* scontrol; exit status of the two mktemp calls and of the sort of the second
\* pipeline; hangs names a command that never returns.
Env(src, sout, crc, cout) ==
    [sinfoRc |-> src, sinfoOut |-> sout, scontrolRc |-> crc, scontrolOut |-> cout,
     mktemp1Rc |-> 0, mktemp2Rc |-> 0, sort2Rc |-> 0, hangs |-> "none"]

\* one node in the summary, every detail blob of at most MaxToks tokens
EnvsDetail == { Env(0, << LineN1 >>, 0, Wrap(t)) : t \in SeqsUpTo(DetailTokens, MaxToks) }

\* every summary blob of at most MaxLines lines, a few detail blobs
EnvsSummary ==
    { Env(0, s, 0, Wrap(t)) : s \in SeqsUpTo(SummaryLines, MaxLines), t \in DetailSamples }

\* a node listed once per partition: up to MaxCopies lines for two nodes
EnvsCopies ==
    { Env(0, s, 0, Wrap(<< NodeTok("n1"), MemTok("FreeMem", 7) >>)) :
        s \in SeqsUpTo(DupLines, MaxCopies) }

\* a command that fails prints nothing on its standard output
EnvsFailed ==
    { Env(1, << >>, 0, << >>) }
        \cup { Env(0, s, 1, << >>) : s \in SeqsUpTo(SummaryLines, MaxLines) }

\* mktemp cannot create a file: the first call, the second call
EnvsMktemp ==
    { [Env(0, << LineN1 >>, 0, << >>) EXCEPT !.mktemp1Rc = 1],
      [Env(0, << LineN1 >>, 0, << >>) EXCEPT !.mktemp2Rc = 1] }

\* the sort of the second pipeline fails (sort exits with 2) and writes nothing
EnvsSort2 ==
    { [Env(0, s, 0, Wrap(t)) EXCEPT !.sort2Rc = 2] :
        s \in SeqsUpTo({ LineN1, LineN2 }, MaxLines), t \in DetailSamples }

\* sinfo or scontrol never returns
EnvsHang ==
    { [Env(0, << LineN1 >>, 0, << >>) EXCEPT !.hangs = h] : h \in {"sinfo", "scontrol"} }

Envs ==
    EnvsDetail \cup EnvsSummary \cup EnvsCopies \cup EnvsFailed
        \cup EnvsMktemp \cup EnvsSort2 \cup EnvsHang

----------------------------------------------------------------------------
(* The web client before anything is fetched *)

\* A value that may be null is a sequence: empty for null, else the value
Null == << >>
Some(x) == << x >>

\* useState of GPUStatus
GpuPageInit ==
    [ gpuStats |-> Null, loading |-> TRUE, error |-> Null, expandedGPU |-> Null,
      queueData |-> EmptyMap, loadingQueue |-> EmptyMap ]

\* useState of Dashboard
DashboardInit == [ nodes |-> << >>, jobs |-> << >>, loading |-> TRUE, error |-> Null ]

\* no fetch cycle of the Dashboard has started: started counts the cycles,
\* completed those that ended; shownNodes / shownJobs are the cycles whose
\* answers nodes and jobs hold (0: the initial empty lists); lastOk tells
\* whether the cycle that ended last succeeded
DashLogInit ==
    [ started |-> 0, completed |-> 0, shownNodes |-> 0, shownJobs |-> 0, lastOk |-> FALSE ]

\* useState of Nodes
NodesPageInit == [ nodes |-> << >>, loading |-> TRUE, error |-> Null ]

\* a chat message: who wrote it, which text it is, and the characters of the
\* text where they come from the user or from the server
ChatMessage(role, kind, text) == [role |-> role, kind |-> kind, text |-> text]

\* useState of AIAssistant
AiPageInit ==
    [ messages |-> << ChatMessage("assistant", "greeting", << >>) >>, input |-> << >>,
      isTyping |-> FALSE, showWaitTimeModal |-> FALSE, estimatedWait |-> Null,
      isEstimating |-> FALSE ]

AiLogInit == [sends |-> 0, replies |-> 0, predicts |-> 0]

\* script-2.sh before it runs: no argument, no file
FilterIdle ==
    [ pc |-> "idle", arg |-> "", files |-> EmptyMap, exit |-> -1, stdout |-> << >> ]

\* the collector before it runs
CollectorIdle ==
    [ pc |-> "idle", sacct |-> "none", rc |-> 0, spinstr |-> << >>, seconds |-> 0,
      start |-> 0, line |-> Null, stdout |-> << >> ]

OthersIdle ==
    /\ aiPage = AiPageInit
    /\ aiNet = << >>
    /\ aiLog = AiLogInit
    /\ filter = FilterIdle
    /\ collector = CollectorIdle

WebIdle ==
    /\ gpuServer = << >>
    /\ gpuPage = GpuPageInit
    /\ gpuNet = << >>
    /\ dashboard = DashboardInit
    /\ dashNet = << >>
    /\ dashLog = DashLogInit
    /\ nodesPage = NodesPageInit
    /\ OthersIdle

----------------------------------------------------------------------------
(* The script *)

Fresh ==
    /\ pc = "start"
    /\ tmpFiles = {}
    /\ sinfoFile = << >>
    /\ scontrolFile = << >>
    /\ awk1 = Awk1Init
    /\ ln = 0
    /\ errPipe = [open |-> FALSE, lines |-> << >>]
    /\ cpc = "none"
    /\ cRows = << >>
    /\ awk2 = ScanInit
    /\ pipe2 = << >>
    /\ sorted2 = << >>
    /\ out = << >>
    /\ exitCode = -1

Init ==
    /\ env \in Envs
    /\ Fresh
    /\ cycle = 1
    /\ prevOut = << >>
    /\ WebIdle

\* SINFO="$(mktemp)"; trap ... EXIT   (set -e: when mktemp fails the script
\* ends before the trap is set, and no file exists)
MkTemp ==
    /\ pc = "start"
    /\ IF env.mktemp1Rc = 0
       THEN tmpFiles' = tmpFiles \cup {"SINFO"} /\ pc' = "mktemp2" /\ exitCode' = exitCode
       ELSE tmpFiles' = tmpFiles /\ pc' = "done" /\ exitCode' = env.mktemp1Rc
    /\ UNCHANGED webVars
    /\ UNCHANGED << env, sinfoFile, scontrolFile, awk1, ln, errPipe, cpc, cRows, awk2,
                    pipe2, sorted2, out, cycle, prevOut >>

\* SCONTROL="$(mktemp)"   (when mktemp fails SCONTROL is assigned the empty
\* text, set -e ends the script and the trap runs)
MkTemp2 ==
    /\ pc = "mktemp2"
    /\ IF env.mktemp2Rc = 0
       THEN tmpFiles' = tmpFiles \cup {"SCONTROL"} /\ pc' = "sinfo" /\ exitCode' = exitCode
       ELSE tmpFiles' = tmpFiles /\ pc' = "trap" /\ exitCode' = env.mktemp2Rc
    /\ UNCHANGED webVars
    /\ UNCHANGED << env, sinfoFile, scontrolFile, awk1, ln, errPipe, cpc, cRows, awk2,
                    pipe2, sorted2, out, cycle, prevOut >>

\* sinfo -N -h -o "%N|%C|%m" > "$SINFO"   (set -e: a failure ends the script)
Sinfo ==
    /\ pc = "sinfo"
    /\ env.hangs # "sinfo"
    /\ sinfoFile' = env.sinfoOut
    /\ IF env.sinfoRc = 0
       THEN pc' = "scontrol" /\ exitCode' = exitCode
       ELSE pc' = "trap" /\ exitCode' = env.sinfoRc
    /\ UNCHANGED webVars
    /\ UNCHANGED << env, tmpFiles, scontrolFile, awk1, ln, errPipe, cpc, cRows, awk2,
                    pipe2, sorted2, out, cycle, prevOut >>

\* Scontrol without  || true : under set -e a failure ends the script
ScontrolFatal ==
    /\ pc = "scontrol"
    /\ env.hangs # "scontrol"
    /\ scontrolFile' = env.scontrolOut
    /\ IF env.scontrolRc = 0
       THEN pc' = "awk1_begin" /\ exitCode' = exitCode
       ELSE pc' = "trap" /\ exitCode' = env.scontrolRc
    /\ UNCHANGED webVars
    /\ UNCHANGED << env, tmpFiles, sinfoFile, awk1, ln, errPipe, cpc, cRows, awk2,
                    pipe2, sorted2, out, cycle, prevOut >>

\* scontrol show node > "$SCONTROL" || true
Scontrol ==
    /\ pc = "scontrol"
    /\ env.hangs # "scontrol"
    /\ scontrolFile' = env.scontrolOut
    /\ pc' = "awk1_begin"
    /\ UNCHANGED webVars
    /\ UNCHANGED << env, tmpFiles, sinfoFile, awk1, ln, errPipe, cpc, cRows, awk2,
                    pipe2, sorted2, out, exitCode, cycle, prevOut >>

\* awk ... 2> >(sort | head -5 | awk): the substitution is started, BEGIN runs
Awk1Begin ==
    /\ pc = "awk1_begin"
    /\ awk1' = [Awk1Init EXCEPT !.d = ScanDetail1(ScanInit, scontrolFile)]
    /\ ln' = 0
    /\ errPipe' = [open |-> TRUE, lines |-> << >>]
    /\ cpc' = "reading"
    /\ pc' = "awk1_main"
    /\ UNCHANGED webVars
    /\ UNCHANGED << env, tmpFiles, sinfoFile, scontrolFile, cRows, awk2, pipe2, sorted2,
                    out, exitCode, cycle, prevOut >>

\* the main rule of the first awk, once per line of "$SINFO"
Awk1Main ==
    /\ pc = "awk1_main"
    /\ ln < Len(sinfoFile)
    /\ awk1' = Pass1Line(awk1, sinfoFile[ln + 1])
    /\ ln' = ln + 1
    /\ UNCHANGED webVars
    /\ UNCHANGED << env, pc, tmpFiles, sinfoFile, scontrolFile, errPipe, cpc, cRows, awk2,
                    pipe2, sorted2, out, exitCode, cycle, prevOut >>

\* END of the first awk: totals and header on stdout, one line per key of
\* idle_cpu on stderr in the order for (k in idle_cpu) visits them; awk exits
\* and the pipe is closed
Awk1End ==
    /\ pc = "awk1_main"
    /\ ln = Len(sinfoFile)
    /\ out' = out \o TotalsText(awk1)
    /\ \E ord \in KeyOrders(DOMAIN awk1.idle_cpu) :
         errPipe' = [ open  |-> FALSE,
                      lines |-> [k \in 1..Len(ord) |->
                                   FmtCpuLine(awk1.idle_cpu[ord[k]], ord[k],
                                              awk1.total_cpu_per_node[ord[k]])] ]
    /\ pc' = "awk2_begin"
    /\ UNCHANGED webVars
    /\ UNCHANGED << env, tmpFiles, sinfoFile, scontrolFile, awk1, ln, cpc, cRows, awk2,
                    pipe2, sorted2, exitCode, cycle, prevOut >>

\* the process substitution: sort reads to end of file, head keeps five lines
ConsumerSort ==
    /\ cpc = "reading"
    /\ ~errPipe.open
    /\ cRows' = HeadK(SortLines(errPipe.lines), TopK)
    /\ cpc' = "sorted"
    /\ UNCHANGED webVars
    /\ UNCHANGED << env, pc, tmpFiles, sinfoFile, scontrolFile, awk1, ln, errPipe, awk2,
                    pipe2, sorted2, out, exitCode, cycle, prevOut >>

\* the process substitution: its awk writes the blank line and the rows
ConsumerPrint ==
    /\ cpc = "sorted"
    /\ out' = out \o CpuText(cRows)
    /\ cpc' = "done"
    /\ UNCHANGED webVars
    /\ UNCHANGED << env, pc, tmpFiles, sinfoFile, scontrolFile, awk1, ln, errPipe, cRows,
                    awk2, pipe2, sorted2, exitCode, cycle, prevOut >>

\* BEGIN of the second awk
Awk2Begin ==
    /\ pc = "awk2_begin"
    /\ awk2' = ScanDetail2(ScanInit, scontrolFile)
    /\ ln' = 0
    /\ pipe2' = << >>
    /\ pc' = "awk2_main"
    /\ UNCHANGED webVars
    /\ UNCHANGED << env, tmpFiles, sinfoFile, scontrolFile, awk1, errPipe, cpc, cRows,
                    sorted2, out, exitCode, cycle, prevOut >>

\* the main rule of the second awk, once per line of "$SINFO"
Awk2Main ==
    /\ pc = "awk2_main"
    /\ ln < Len(sinfoFile)
    /\ pipe2' = Append(pipe2, Pass2Line(awk2, sinfoFile[ln + 1]))
    /\ ln' = ln + 1
    /\ UNCHANGED webVars
    /\ UNCHANGED << env, pc, tmpFiles, sinfoFile, scontrolFile, awk1, errPipe, cpc, cRows,
                    awk2, sorted2, out, exitCode, cycle, prevOut >>

\* | sort -t"|" -k1,1nr | head -5   (a sort that fails hands nothing on)
Sort2 ==
    /\ pc = "awk2_main"
    /\ ln = Len(sinfoFile)
    /\ sorted2' = IF env.sort2Rc = 0 THEN HeadK(SortLines(pipe2), TopK) ELSE << >>
    /\ pc' = "final2"
    /\ UNCHANGED webVars
    /\ UNCHANGED << env, tmpFiles, sinfoFile, scontrolFile, awk1, ln, errPipe, cpc, cRows,
                    awk2, pipe2, out, exitCode, cycle, prevOut >>

\* | awk: blank line, header and the rows of the memory ranking; under
\* pipefail the status of the pipeline is that of its failing command
Final2 ==
    /\ pc = "final2"
    /\ out' = out \o MemText(sorted2)
    /\ exitCode' = env.sort2Rc
    /\ pc' = "trap"
    /\ UNCHANGED webVars
    /\ UNCHANGED << env, tmpFiles, sinfoFile, scontrolFile, awk1, ln, errPipe, cpc, cRows,
                    awk2, pipe2, sorted2, cycle, prevOut >>

\* Trap that removes "$SCONTROL" alone
TrapScontrolOnly ==
    /\ pc = "trap"
    /\ tmpFiles' = tmpFiles \ {"SCONTROL"}
    /\ pc' = "done"
    /\ UNCHANGED webVars
    /\ UNCHANGED << env, sinfoFile, scontrolFile, awk1, ln, errPipe, cpc, cRows, awk2,
                    pipe2, sorted2, out, exitCode, cycle, prevOut >>

\* trap 'rm -f "$SINFO" "$SCONTROL"' EXIT
Trap ==
    /\ pc = "trap"
    /\ tmpFiles' = {}
    /\ pc' = "done"
    /\ UNCHANGED webVars
    /\ UNCHANGED << env, sinfoFile, scontrolFile, awk1, ln, errPipe, cpc, cRows, awk2,
                    pipe2, sorted2, out, exitCode, cycle, prevOut >>

Next ==
    \/ MkTemp \/ MkTemp2 \/ Sinfo \/ Scontrol
    \/ Awk1Begin \/ Awk1Main \/ Awk1End
    \/ ConsumerSort \/ ConsumerPrint
    \/ Awk2Begin \/ Awk2Main \/ Sort2 \/ Final2
    \/ Trap

Spec == Init /\ [][Next]_vars

\* the script is run a second time on the same two blobs
Rerun ==
    /\ cycle = 1
    /\ pc = "done"
    /\ cpc \in {"none", "done"}
    /\ cycle' = 2
    /\ prevOut' = out
    /\ pc' = "start"
    /\ tmpFiles' = {}
    /\ sinfoFile' = << >>
    /\ scontrolFile' = << >>
    /\ awk1' = Awk1Init
    /\ ln' = 0
    /\ errPipe' = [open |-> FALSE, lines |-> << >>]
    /\ cpc' = "none"
    /\ cRows' = << >>
    /\ awk2' = ScanInit
    /\ pipe2' = << >>
    /\ sorted2' = << >>
    /\ out' = << >>
    /\ exitCode' = -1
    /\ UNCHANGED webVars
    /\ UNCHANGED env

NextTwice == Next \/ Rerun

SpecTwice == Init /\ [][NextTwice]_vars

----------------------------------------------------------------------------
(* The web client: text *)

\* the script at rest, for the specifications of the web client
ScriptIdle ==
    /\ env = Env(0, << >>, 0, << >>)
    /\ Fresh
    /\ cycle = 1
    /\ prevOut = << >>

\* A GPU type or a path is a sequence of characters.  The letters that occur:
LowerLetters == << "a", "h", "i", "r", "t", "v", "x" >>
UpperLetters == << "A", "H", "I", "R", "T", "V", "X" >>

\* where c stands in s, 0 when it does not
IndexIn(c, s) ==
    IF \E i \in DOMAIN s : s[i] = c THEN CHOOSE i \in DOMAIN s : s[i] = c ELSE 0

\* String.prototype.toUpperCase
toUpperCase(s) ==
    [ i \in 1..Len(s) |->
        IF IndexIn(s[i], LowerLetters) = 0 THEN s[i]
        ELSE UpperLetters[IndexIn(s[i], LowerLetters)] ]

\* String.prototype.toLowerCase
toLowerCase(s) ==
    [ i \in 1..Len(s) |->
        IF IndexIn(s[i], UpperLetters) = 0 THEN s[i]
        ELSE LowerLetters[IndexIn(s[i], UpperLetters)] ]

H200      == << "H", "2", "0", "0" >>
A6000     == << "A", "6", "0", "0", "0" >>
A40       == << "A", "4", "0" >>
V100      == << "V", "1", "0", "0" >>
A100      == << "A", "1", "0", "0" >>
RTX3090   == << "R", "T", "X", "3", "0", "9", "0" >>
RTX2080Ti == << "R", "T", "X", "2", "0", "8", "0", "T", "i" >>

GpuNames == { H200, A6000, A40, V100, A100, RTX3090, RTX2080Ti }

----------------------------------------------------------------------------
(* The GPU page *)

\* at most this many GPU types in the answer of GET /gpu
MaxCards == 2
\* at most this many queue requests in flight
MaxInFlight == 2

\* Map display names to API endpoints
gpuTypeMap ==
    (H200 :> << "h", "2", "0", "0" >>)
        @@ (A6000 :> << "a", "6", "0", "0", "0" >>)
        @@ (A40 :> << "a", "4", "0" >>)
        @@ (V100 :> << "v", "1", "0", "0" >>)
        @@ (A100 :> << "a", "1", "0", "0" >>)
        @@ (RTX3090 :> << "3", "0", "9", "0" >>)
        @@ (RTX2080Ti :> << "2", "0", "8", "0", "t", "i" >>)

\* gpuTypeMap[gpuType] || gpuType.toLowerCase()
ApiType(gpuType) ==
    IF gpuType \in DOMAIN gpuTypeMap THEN gpuTypeMap[gpuType] ELSE toLowerCase(gpuType)

\* api.get(`/gpu/${gpuType}`)
GpuUrl(apiType) == << "/", "g", "p", "u", "/" >> \o apiType

\* the table of the GPU queue endpoints, by GPU type
DocumentedEndpoint ==
    (H200 :> << "/", "g", "p", "u", "/", "h", "2", "0", "0" >>)
        @@ (A6000 :> << "/", "g", "p", "u", "/", "a", "6", "0", "0", "0" >>)
        @@ (A40 :> << "/", "g", "p", "u", "/", "a", "4", "0" >>)
        @@ (V100 :> << "/", "g", "p", "u", "/", "v", "1", "0", "0" >>)
        @@ (A100 :> << "/", "g", "p", "u", "/", "a", "1", "0", "0" >>)
        @@ (RTX3090 :> << "/", "g", "p", "u", "/", "3", "0", "9", "0" >>)
        @@ (RTX2080Ti :> << "/", "g", "p", "u", "/", "2", "0", "8", "0", "t", "i" >>)

\* the server answers the documented endpoints and no other
ServerKnows(url) == \E g \in GpuNames : DocumentedEndpoint[g] = url

\* "type" in the answer of GET /gpu: lower case as documented ("a100"), or as
\* the page displays it
ServerTypes == { toLowerCase(g) : g \in GpuNames } \cup { RTX2080Ti }

GpuServers ==
    { s \in SeqsUpTo(ServerTypes, MaxCards) :
        s # << >> /\ \A i, j \in DOMAIN s : i # j => s[i] # s[j] }

\* what a queue endpoint answers
QueueSamples == { [job_count |-> 0], [job_count |-> 1] }

ConnectError == "Unable to connect to the HPC server. Please ensure the backend is running."

InitGpu ==
    /\ ScriptIdle
    /\ gpuServer \in GpuServers
    /\ gpuPage = GpuPageInit
    /\ gpuNet = << >>
    /\ dashboard = DashboardInit
    /\ dashNet = << >>
    /\ dashLog = DashLogInit
    /\ nodesPage = NodesPageInit
    /\ OthersIdle

\* fetchGPUStats, on mount and every 30 seconds: the answer arrives, or the
\* request fails
FetchGPUStats ==
    /\ \/ gpuPage' = [gpuPage EXCEPT !.gpuStats = Some(gpuServer), !.error = Null, !.loading = FALSE]
       \/ gpuPage' = [gpuPage EXCEPT !.error = Some(ConnectError), !.loading = FALSE]
    /\ UNCHANGED << scriptVars, gpuServer, gpuNet, dashVars, nodesPage, otherVars >>

\* ToggleGPU that fetches the queue on every expand
ToggleGPUAlwaysFetch ==
    /\ gpuPage.gpuStats # Null
    /\ \E k \in 1..Len(gpuPage.gpuStats[1]) :
         LET gpuType == toUpperCase(gpuPage.gpuStats[1][k])
         IN  IF gpuPage.expandedGPU = Some(gpuType)
             THEN /\ gpuPage' = [gpuPage EXCEPT !.expandedGPU = Null]
                  /\ gpuNet' = gpuNet
             ELSE /\ Len(gpuNet) < MaxInFlight
                  /\ gpuPage' = [gpuPage EXCEPT
                                   !.expandedGPU = Some(gpuType),
                                   !.loadingQueue = MapPut(@, gpuType, TRUE)]
                  /\ gpuNet' = Append(gpuNet, [ gpuType |-> gpuType,
                                                url     |-> GpuUrl(ApiType(gpuType)) ])
    /\ UNCHANGED << scriptVars, gpuServer, dashVars, nodesPage, otherVars >>

\* onClick of the card of gpuStats.gpu_types[k]: toggleGPU(gpu.type.toUpperCase()),
\* and fetchGPUQueue up to its await
ToggleGPU ==
    /\ gpuPage.gpuStats # Null
    /\ \E k \in 1..Len(gpuPage.gpuStats[1]) :
         LET gpuType == toUpperCase(gpuPage.gpuStats[1][k])
         IN  IF gpuPage.expandedGPU = Some(gpuType)
             THEN /\ gpuPage' = [gpuPage EXCEPT !.expandedGPU = Null]
                  /\ gpuNet' = gpuNet
             ELSE IF gpuType \in DOMAIN gpuPage.queueData
             THEN /\ gpuPage' = [gpuPage EXCEPT !.expandedGPU = Some(gpuType)]
                  /\ gpuNet' = gpuNet
             ELSE /\ Len(gpuNet) < MaxInFlight
                  /\ gpuPage' = [gpuPage EXCEPT
                                   !.expandedGPU = Some(gpuType),
                                   !.loadingQueue = MapPut(@, gpuType, TRUE)]
                  /\ gpuNet' = Append(gpuNet, [ gpuType |-> gpuType,
                                                url     |-> GpuUrl(ApiType(gpuType)) ])
    /\ UNCHANGED << scriptVars, gpuServer, dashVars, nodesPage, otherVars >>

\* s without its i-th element
RemoveAt(s, i) == SubSeq(s, 1, i - 1) \o SubSeq(s, i + 1, Len(s))

\* fetchGPUQueue after its await: a request in flight is answered (an endpoint
\* the server has) or fails
QueueAnswer ==
    /\ \E i \in 1..Len(gpuNet) :
         /\ \/ /\ ServerKnows(gpuNet[i].url)
               /\ \E data \in QueueSamples :
                    gpuPage' = [gpuPage EXCEPT
                                  !.queueData = MapPut(@, gpuNet[i].gpuType, data),
                                  !.loadingQueue = MapPut(@, gpuNet[i].gpuType, FALSE)]
            \/ gpuPage' = [gpuPage EXCEPT
                             !.loadingQueue = MapPut(@, gpuNet[i].gpuType, FALSE)]
         /\ gpuNet' = RemoveAt(gpuNet, i)
    /\ UNCHANGED << scriptVars, gpuServer, dashVars, nodesPage, otherVars >>

NextGpu == FetchGPUStats \/ ToggleGPU \/ QueueAnswer

SpecGpu == InitGpu /\ [][NextGpu]_vars

----------------------------------------------------------------------------
(* The dashboard and the nodes page *)

\* at most this many nodes in the answer of GET /nodes
MaxNodes == 2

\* A JavaScript number that comes out of a division: the quotient num/den, or
\* NaN (0/0), or Infinity (x/0 with x > 0).
JsDiv(a, b) ==
    IF b # 0 THEN [kind |-> "num", num |-> a, den |-> b]
    ELSE IF a = 0 THEN [kind |-> "NaN", num |-> 0, den |-> 1]
    ELSE [kind |-> "Infinity", num |-> 0, den |-> 1]

\* x * k
JsTimes(x, k) == IF x.kind = "num" THEN [x EXCEPT !.num = @ * k] ELSE x

Pow10(d) == IF d = 0 THEN 1 ELSE 10

\* Number.prototype.toFixed(digits), digits 0 or 1: the text of a number is
\* its value times 10^digits, rounded; NaN and Infinity give their names
toFixed(x, digits) ==
    IF x.kind # "num" THEN [text |-> x.kind, scaled |-> 0, digits |-> 0]
    ELSE [ text   |-> "number",
           scaled |-> (2 * x.num * Pow10(digits) + x.den) \div (2 * x.den),
           digits |-> digits ]

\* the text '0'
TextZero == [text |-> "number", scaled |-> 0, digits |-> 0]

\* the texts of gres that contain 'gpu'
GresWithGpu == { "gpu:a100:4" }
\* node.gres && node.gres.includes('gpu')
HasGpu(node) == node.gres # "" /\ node.gres \in GresWithGpu

\* state.toLowerCase() === 'idle'
IsIdle(node) == node.state \in { "idle", "IDLE", "Idle" }

RECURSIVE Reduce(_, _)
\* nodes.reduce((sum, node) => sum + node[field], 0)
Reduce(nodes, field) ==
    IF nodes = << >> THEN 0 ELSE Head(nodes)[field] + Reduce(Tail(nodes), field)

calculateClusterStats(nodes) ==
    LET totalCPUs == Reduce(nodes, "cpusT")
        idleCPUs  == Reduce(nodes, "cpusI")
        allocCPUs == Reduce(nodes, "cpusA")
    IN  [ totalNodes     |-> Len(nodes),
          totalCPUs      |-> totalCPUs,
          idleCPUs       |-> idleCPUs,
          allocCPUs      |-> allocCPUs,
          cpuUtilization |-> IF totalCPUs > 0
                             THEN toFixed(JsTimes(JsDiv(allocCPUs, totalCPUs), 100), 1)
                             ELSE TextZero,
          totalMemory    |-> Reduce(nodes, "mem_mb"),
          totalGPUs      |-> Len(SelectSeq(nodes, HasGpu)),
          idleNodes      |-> Len(SelectSeq(nodes, IsIdle)) ]

\* NodeCard, the CPU bar: the width of the bar and the text under it
NodeCard(node) ==
    [ width |-> JsTimes(JsDiv(node.cpusA, node.cpusT), 100),
      pct   |-> toFixed(JsTimes(JsDiv(node.cpusA, node.cpusT), 100), 0) ]

Node(name, state, a, i, t, mem, gres) ==
    [ name |-> name, state |-> state, cpusA |-> a, cpusI |-> i, cpusT |-> t,
      mem_mb |-> mem, gres |-> gres ]

\* nodes GET /nodes may answer with; "down0" reports no CPUs
NodeSamples ==
    { Node("idle2", "idle", 0, 2, 2, 8, ""),
      Node("mix3", "mix", 1, 2, 3, 4, "gpu:a100:4"),
      Node("alloc3", "alloc", 2, 1, 3, 4, ""),
      Node("IDLE1", "IDLE", 0, 1, 1, 2, "gpu:a100:4"),
      Node("alloc2", "alloc", 2, 0, 2, 8, ""),
      Node("down0", "down", 0, 0, 0, 0, "") }

NodeLists == SeqsUpTo(NodeSamples, MaxNodes)

\* job states GET /jobs may answer with
JobLists == { << >>, << "R", "PD" >> }

InitNodes ==
    /\ ScriptIdle
    /\ gpuServer = << >>
    /\ gpuPage = GpuPageInit
    /\ gpuNet = << >>
    /\ dashboard = DashboardInit
    /\ dashNet = << >>
    /\ dashLog = DashLogInit
    /\ nodesPage = NodesPageInit
    /\ OthersIdle

\* fetchData of Dashboard, on mount and every 12 seconds, as one step (a
\* cycle no other cycle overlaps): both answers arrive, or one of the two
\* requests fails
FetchData ==
    /\ \/ \E ns \in NodeLists, js \in JobLists :
            dashboard' = [ nodes |-> ns, jobs |-> js, loading |-> FALSE, error |-> Null ]
       \/ dashboard' = [dashboard EXCEPT !.error = Some(ConnectError), !.loading = FALSE]
    /\ UNCHANGED << scriptVars, gpuVars, dashNet, dashLog, nodesPage, otherVars >>

\* fetchNodes of Nodes, on mount and every 12 seconds
FetchNodes ==
    /\ \/ \E ns \in NodeLists :
            nodesPage' = [ nodes |-> ns, loading |-> FALSE, error |-> Null ]
       \/ nodesPage' = [nodesPage EXCEPT !.error = Some(ConnectError), !.loading = FALSE]
    /\ UNCHANGED << scriptVars, gpuVars, dashVars, otherVars >>

NextNodes == FetchData \/ FetchNodes

SpecNodes == InitNodes /\ [][NextNodes]_vars

----------------------------------------------------------------------------
(* The dashboard, with fetch cycles that overlap *)

\* at most this many fetch cycles of the dashboard
MaxCycles == 3

\* what GET /nodes and GET /jobs answer in one cycle
DashAnswers ==
    { [nodes |-> ns, jobs |-> js] :
        ns \in { l \in NodeLists : Len(l) <= 1 }, js \in JobLists }

InitDash ==
    /\ ScriptIdle
    /\ gpuServer = << >>
    /\ gpuPage = GpuPageInit
    /\ gpuNet = << >>
    /\ dashboard = DashboardInit
    /\ dashNet = << >>
    /\ dashLog = DashLogInit
    /\ nodesPage = NodesPageInit
    /\ OthersIdle

\* fetchData up to its await: the cycle is in flight
StartCycle(by) ==
    /\ dashLog.started < MaxCycles
    /\ dashNet' = Append(dashNet, [id |-> dashLog.started + 1, by |-> by])
    /\ dashLog' = [dashLog EXCEPT !.started = @ + 1]
    /\ UNCHANGED << scriptVars, gpuVars, dashboard, nodesPage, otherVars >>

\* useEffect: fetchData on mount and from setInterval(fetchData, 12000).  A
\* request ends within the 10 s timeout of the api object, so the cycle of the
\* previous tick is over when the next tick comes.
DashInterval ==
    /\ \A i \in 1..Len(dashNet) : dashNet[i].by # "interval"
    /\ StartCycle("interval")

\* onClick of the Retry Connection button, which the error view shows
RetryConnection ==
    /\ ~dashboard.loading
    /\ dashboard.error # Null
    /\ StartCycle("retry")

\* FetchDataSettle that keeps the nodes when only GET /jobs failed
FetchDataSettleKeepsNodes ==
    /\ \E i \in 1..Len(dashNet) :
         /\ \/ \E ans \in DashAnswers :
                 /\ dashboard' = [ nodes |-> ans.nodes, jobs |-> ans.jobs,
                                   loading |-> FALSE, error |-> Null ]
                 /\ dashLog' = [dashLog EXCEPT
                                  !.completed = @ + 1, !.lastOk = TRUE,
                                  !.shownNodes = dashNet[i].id, !.shownJobs = dashNet[i].id]
            \/ \E ans \in DashAnswers :
                 /\ dashboard' = [dashboard EXCEPT
                                    !.nodes = ans.nodes,
                                    !.error = Some(ConnectError), !.loading = FALSE]
                 /\ dashLog' = [dashLog EXCEPT
                                  !.completed = @ + 1, !.lastOk = FALSE,
                                  !.shownNodes = dashNet[i].id]
         /\ dashNet' = RemoveAt(dashNet, i)
    /\ UNCHANGED << scriptVars, gpuVars, nodesPage, otherVars >>

\* FetchDataSettle without the finally block when the cycle failed
FetchDataSettleNoFinally ==
    /\ \E i \in 1..Len(dashNet) :
         /\ \/ \E ans \in DashAnswers :
                 /\ dashboard' = [ nodes |-> ans.nodes, jobs |-> ans.jobs,
                                   loading |-> FALSE, error |-> Null ]
                 /\ dashLog' = [dashLog EXCEPT
                                  !.completed = @ + 1, !.lastOk = TRUE,
                                  !.shownNodes = dashNet[i].id, !.shownJobs = dashNet[i].id]
            \/ /\ dashboard' = [dashboard EXCEPT !.error = Some(ConnectError)]
               /\ dashLog' = [dashLog EXCEPT !.completed = @ + 1, !.lastOk = FALSE]
         /\ dashNet' = RemoveAt(dashNet, i)
    /\ UNCHANGED << scriptVars, gpuVars, nodesPage, otherVars >>

\* fetchData after its await: Promise.all of a cycle in flight resolves with
\* both answers, or rejects because one of the two requests failed
FetchDataSettle ==
    /\ \E i \in 1..Len(dashNet) :
         /\ \/ \E ans \in DashAnswers :
                 /\ dashboard' = [ nodes |-> ans.nodes, jobs |-> ans.jobs,
                                   loading |-> FALSE, error |-> Null ]
                 /\ dashLog' = [dashLog EXCEPT
                                  !.completed = @ + 1, !.lastOk = TRUE,
                                  !.shownNodes = dashNet[i].id, !.shownJobs = dashNet[i].id]
            \/ /\ dashboard' = [dashboard EXCEPT
                                  !.error = Some(ConnectError), !.loading = FALSE]
               /\ dashLog' = [dashLog EXCEPT !.completed = @ + 1, !.lastOk = FALSE]
         /\ dashNet' = RemoveAt(dashNet, i)
    /\ UNCHANGED << scriptVars, gpuVars, nodesPage, otherVars >>

NextDash == DashInterval \/ RetryConnection \/ FetchDataSettle

SpecDash == InitDash /\ [][NextDash]_vars

----------------------------------------------------------------------------
(* The AI assistant *)

\* at most this many sends in one run
MaxSends == 2
\* at most this many wait-time predictions in one run
MaxPredicts == 2

\* String.prototype.trim on the characters of a text
RECURSIVE TrimStart(_)
TrimStart(t) ==
    IF t # << >> /\ Head(t) = " " THEN TrimStart(Tail(t)) ELSE t

RECURSIVE TrimEnd(_)
TrimEnd(t) ==
    IF t # << >> /\ t[Len(t)] = " " THEN TrimEnd(SubSeq(t, 1, Len(t) - 1)) ELSE t

trim(t) == TrimEnd(TrimStart(t))

\* a || b on texts: the empty (or missing) text is falsy
OrElse(a, b) == IF a = << >> THEN b ELSE a

\* what the user can have in the input box
InputSamples == { << >>, << " " >>, << "q" >>, << " ", "q", " " >> }

\* the answers to POST /optimize: the response body, or a rejection
OptimizeAnswers ==
    { [rejects |-> FALSE, success |-> TRUE, text |-> << "a" >>],
      [rejects |-> FALSE, success |-> FALSE, text |-> << "e" >>],
      [rejects |-> FALSE, success |-> FALSE, text |-> << >>],
      [rejects |-> TRUE, success |-> FALSE, text |-> << >>] }

\* the answers to the wait-time prediction: estimated_wait_hours as an option
PredictAnswers ==
    { [rejects |-> FALSE, success |-> TRUE, hours |-> Some(0)],
      [rejects |-> FALSE, success |-> TRUE, hours |-> Some(3)],
      [rejects |-> FALSE, success |-> TRUE, hours |-> Null],
      [rejects |-> FALSE, success |-> FALSE, hours |-> Some(3)],
      [rejects |-> TRUE, success |-> FALSE, hours |-> Null] }

InitAi ==
    /\ ScriptIdle
    /\ WebIdle

\* onChange of the input box, which is disabled while isTyping
SetInput ==
    /\ ~aiPage.isTyping
    /\ \E value \in InputSamples :
        /\ value # aiPage.input
        /\ aiPage' = [aiPage EXCEPT !.input = value]
    /\ UNCHANGED << scriptVars, gpuVars, dashVars, nodesPage, aiNet, aiLog, filter, collector >>

\* handleSend as far as its await: Enter in the input box or the Send button,
\* both disabled while isTyping
HandleSend ==
    /\ ~aiPage.isTyping
    /\ trim(aiPage.input) # << >>
    /\ aiLog.sends < MaxSends
    /\ aiPage' = [aiPage EXCEPT
                    !.messages = Append(@, ChatMessage("user", "input", aiPage.input)),
                    !.input = << >>,
                    !.isTyping = TRUE]
    /\ aiNet' = Append(aiNet, "optimize")
    /\ aiLog' = [aiLog EXCEPT !.sends = @ + 1]
    /\ UNCHANGED << scriptVars, gpuVars, dashVars, nodesPage, filter, collector >>

\* the fixed sentence of handleSend for a failure that reports no error
SorryText == << "s", "o", "r", "r", "y" >>

\* the message handleSend appends for an answer
ReplyTo(r) ==
    IF r.rejects THEN ChatMessage("assistant", "connection_error", << >>)
    ELSE IF r.success THEN ChatMessage("assistant", "answer", r.text)
    ELSE ChatMessage("assistant", "error", OrElse(r.text, SorryText))

\* handleSend without its finally block
OptimizeSettleKeepsTyping ==
    /\ \E i \in 1..Len(aiNet) :
        /\ aiNet[i] = "optimize"
        /\ aiNet' = RemoveAt(aiNet, i)
    /\ \E r \in OptimizeAnswers :
        aiPage' = [aiPage EXCEPT !.messages = Append(@, ReplyTo(r))]
    /\ aiLog' = [aiLog EXCEPT !.replies = @ + 1]
    /\ UNCHANGED << scriptVars, gpuVars, dashVars, nodesPage, filter, collector >>

\* handleSend after its await: the request resolves or rejects
OptimizeSettle ==
    /\ \E i \in 1..Len(aiNet) :
        /\ aiNet[i] = "optimize"
        /\ aiNet' = RemoveAt(aiNet, i)
    /\ \E r \in OptimizeAnswers :
        aiPage' = [aiPage EXCEPT !.messages = Append(@, ReplyTo(r)),
                                 !.isTyping = FALSE]
    /\ aiLog' = [aiLog EXCEPT !.replies = @ + 1]
    /\ UNCHANGED << scriptVars, gpuVars, dashVars, nodesPage, filter, collector >>

\* the suggested prompt "Estimate wait time", shown while there is at most one
\* message
OpenWaitTimeModal ==
    /\ Len(aiPage.messages) <= 1
    /\ ~aiPage.showWaitTimeModal
    /\ aiPage' = [aiPage EXCEPT !.showWaitTimeModal = TRUE]
    /\ UNCHANGED << scriptVars, gpuVars, dashVars, nodesPage, aiNet, aiLog, filter, collector >>

\* the X button and the Close button of the modal
CloseWaitTimeModal ==
    /\ aiPage.showWaitTimeModal
    /\ aiPage' = [aiPage EXCEPT !.showWaitTimeModal = FALSE, !.estimatedWait = Null]
    /\ UNCHANGED << scriptVars, gpuVars, dashVars, nodesPage, aiNet, aiLog, filter, collector >>

\* handleEstimateWaitTime as far as its await: the Predict button of the modal,
\* disabled while isEstimating
HandleEstimateWaitTime ==
    /\ aiPage.showWaitTimeModal
    /\ ~aiPage.isEstimating
    /\ aiLog.predicts < MaxPredicts
    /\ aiPage' = [aiPage EXCEPT !.isEstimating = TRUE, !.estimatedWait = Null]
    /\ aiNet' = Append(aiNet, "predict")
    /\ aiLog' = [aiLog EXCEPT !.predicts = @ + 1]
    /\ UNCHANGED << scriptVars, gpuVars, dashVars, nodesPage, filter, collector >>

\* handleEstimateWaitTime after its await
PredictSettle ==
    /\ \E i \in 1..Len(aiNet) :
        /\ aiNet[i] = "predict"
        /\ aiNet' = RemoveAt(aiNet, i)
    /\ \E r \in PredictAnswers :
        IF ~r.rejects /\ r.success /\ r.hours # Null
        THEN aiPage' = [aiPage EXCEPT !.estimatedWait = r.hours,
                                      !.isEstimating = FALSE]
        ELSE aiPage' = [aiPage EXCEPT
                !.messages = Append(@, ChatMessage("assistant",
                    IF r.rejects THEN "estimate_error" ELSE "estimate_failed", << >>)),
                !.showWaitTimeModal = FALSE,
                !.isEstimating = FALSE]
    /\ UNCHANGED << scriptVars, gpuVars, dashVars, nodesPage, aiLog, filter, collector >>

NextAi ==
    \/ SetInput
    \/ HandleSend
    \/ OptimizeSettle
    \/ OpenWaitTimeModal
    \/ CloseWaitTimeModal
    \/ HandleEstimateWaitTime
    \/ PredictSettle

SpecAi == InitAi /\ [][NextAi]_vars

-----------------------------------------------------------------------------
(* The job-history filter, script-2.sh *)

\* at most this many lines in the input file
MaxHist == 3

Bar == << 124 >>

\* the text COMPLETED
Completed == << 67, 79, 77, 80, 76, 69, 84, 69, 68 >>

\* the text FAILED
Failed == << 70, 65, 73, 76, 69, 68 >>

\* lines of a job history: the header (Submit|Start|State, shortened), and
\* jobs whose state is or is not the third field's whole text
HeaderLine == << 83 >> \o Bar \o << 84 >> \o Bar \o << 83, 116 >>

CompletedJob == << 49 >> \o Bar \o << 50 >> \o Bar \o Completed \o Bar \o << 52 >>

HistLines ==
    { HeaderLine,
      CompletedJob,
      << 49 >> \o Bar \o << 50 >> \o Bar \o Failed,
      << 49 >> \o Bar \o Completed \o Bar \o Failed,
      << 49 >> \o Bar \o << 50 >> \o Bar \o Completed \o << 43 >>,
      << 49 >> \o Bar \o << 50 >> }

\* a regular file with its lines, and a directory
RegularFile(lines) == [kind |-> "file", lines |-> lines]

Directory == [kind |-> "dir", lines |-> << >>]

\* "${INPUT_FILE%.csv}_completed.csv" on a name given by its parts, the
\* extension .csv being a part of its own
OutputFile(name) ==
    ( IF name # << >> /\ name[Len(name)] = ".csv"
      THEN SubSeq(name, 1, Len(name) - 1)
      ELSE name ) \o << "_completed", ".csv" >>

\* the names a history file has in the model, and the name of a directory
HistNames == { << "a", ".csv" >>, << "b" >> }

DirName == << "d", ".csv" >>

\* the arguments: none, a history file, the directory, a name of no file
FilterArgs == { << >>, << "a", ".csv" >>, << "b" >>, DirName, << "n", ".csv" >> }

\* the files before the run: one history file, a directory and perhaps an
\* output file left by an earlier run
FilterFiles ==
    UNION { { (name :> RegularFile(lines)) @@ (DirName :> Directory) @@ old :
                lines \in SeqsUpTo(HistLines, MaxHist),
                old \in { EmptyMap, OutputFile(name) :> RegularFile(<< Failed >>) } } :
            name \in HistNames }

InitFilter ==
    /\ ScriptIdle
    /\ gpuServer = Null /\ gpuPage = GpuPageInit /\ gpuNet = << >>
    /\ dashboard = DashboardInit /\ dashNet = << >> /\ dashLog = DashLogInit
    /\ nodesPage = NodesPageInit
    /\ aiPage = AiPageInit /\ aiNet = << >> /\ aiLog = AiLogInit
    /\ collector = CollectorIdle
    /\ \E arg \in FilterArgs, files \in FilterFiles :
        filter = [ pc |-> "start", arg |-> arg, files |-> files, exit |-> -1,
                   stdout |-> << >> ]

\* if [ -z "$1" ]
FilterCheckArg ==
    /\ filter.pc = "start"
    /\ IF filter.arg = << >>
       THEN filter' = [filter EXCEPT !.pc = "done", !.exit = 1,
                                     !.stdout = @ \o << "usage", "example" >>]
       ELSE filter' = [filter EXCEPT !.pc = "check_file"]
    /\ UNCHANGED << scriptVars, gpuVars, dashVars, nodesPage, aiVars, collector >>

\* [ -f name ]
IsRegularFile(files, name) == name \in DOMAIN files /\ files[name].kind = "file"

\* if [ ! -f "$INPUT_FILE" ], and the echo before awk
FilterCheckFile ==
    /\ filter.pc = "check_file"
    /\ IF ~IsRegularFile(filter.files, filter.arg)
       THEN filter' = [filter EXCEPT !.pc = "done", !.exit = 1,
                                     !.stdout = Append(@, "not_found")]
       ELSE filter' = [filter EXCEPT !.pc = "awk", !.stdout = Append(@, "filtering")]
    /\ UNCHANGED << scriptVars, gpuVars, dashVars, nodesPage, aiVars, collector >>

\* the pattern without NR==1
KeepsCompletedOnly(nr, line) == FieldOf(SplitBar(line), 3) = Completed

\* NR==1 || $3=="COMPLETED"
Keeps(nr, line) == nr = 1 \/ FieldOf(SplitBar(line), 3) = Completed

RECURSIVE AwkPrint(_, _)
\* the lines awk prints of the lines from record number nr on
AwkPrint(lines, nr) ==
    IF lines = << >> THEN << >>
    ELSE ( IF Keeps(nr, Head(lines)) THEN << Head(lines) >> ELSE << >> )
         \o AwkPrint(Tail(lines), nr + 1)

\* awk ... "$INPUT_FILE" > "$OUTPUT_FILE": the redirection creates or empties
\* the output file, awk writes the lines it keeps
FilterAwk ==
    /\ filter.pc = "awk"
    /\ LET written == RegularFile(AwkPrint(filter.files[filter.arg].lines, 1))
       IN  filter' = [filter EXCEPT
                        !.pc = "echo",
                        !.files = (OutputFile(filter.arg) :> written) @@ @]
    /\ UNCHANGED << scriptVars, gpuVars, dashVars, nodesPage, aiVars, collector >>

\* the two last echo commands; the script ends with the status of the last
FilterEcho ==
    /\ filter.pc = "echo"
    /\ filter' = [filter EXCEPT !.pc = "done", !.exit = 0,
                                !.stdout = @ \o << "done", "saved" >>]
    /\ UNCHANGED << scriptVars, gpuVars, dashVars, nodesPage, aiVars, collector >>

NextFilter ==
    \/ FilterCheckArg
    \/ FilterCheckFile
    \/ FilterAwk
    \/ FilterEcho

SpecFilter == InitFilter /\ [][NextFilter]_vars

-----------------------------------------------------------------------------
(* The job-history collector of webapp/README.md *)

\* the clock SECONDS goes this far
MaxSeconds == 2

\* spinstr='|/-\'
SpinStr == << "|", "/", "-", "\\" >>

InitCollector ==
    /\ ScriptIdle
    /\ gpuServer = Null /\ gpuPage = GpuPageInit /\ gpuNet = << >>
    /\ dashboard = DashboardInit /\ dashNet = << >> /\ dashLog = DashLogInit
    /\ nodesPage = NodesPageInit
    /\ aiPage = AiPageInit /\ aiNet = << >> /\ aiLog = AiLogInit
    /\ filter = FilterIdle
    /\ collector = [CollectorIdle EXCEPT !.pc = "start"]

CollectorOnly == UNCHANGED << scriptVars, gpuVars, dashVars, nodesPage, aiVars, filter >>

\* sacct ... > "$OUTFILE" &  ; SACCT_PID=$! ; show_progress $SACCT_PID as far
\* as its loop
CollectorSpawn ==
    /\ collector.pc = "start"
    /\ collector' = [collector EXCEPT !.pc = "test", !.sacct = "running",
                                      !.spinstr = SpinStr, !.start = collector.seconds]
    /\ CollectorOnly

\* the process ends, with status 0 or not, and the shell notes it
SacctExit ==
    /\ collector.sacct = "running"
    /\ \E rc \in {0, 1} :
        collector' = [collector EXCEPT !.sacct = "exited", !.rc = rc]
    /\ CollectorOnly

\* the shell's SECONDS moves on
Tick ==
    /\ collector.pc \notin {"start", "done"}
    /\ collector.seconds < MaxSeconds
    /\ collector' = [collector EXCEPT !.seconds = @ + 1]
    /\ CollectorOnly

\* a loop test that leaves the loop whatever the process does
CollectorTestOnce ==
    /\ collector.pc = "test"
    /\ collector' = [collector EXCEPT !.pc = "after"]
    /\ CollectorOnly

\* while kill -0 $pid 2>/dev/null
CollectorTest ==
    /\ collector.pc = "test"
    /\ collector' = [collector EXCEPT
                        !.pc = IF collector.sacct = "running" THEN "body" ELSE "after"]
    /\ CollectorOnly

\* the body of the loop: the spinner turns by one, printf overwrites the
\* progress line, sleep 0.1
CollectorBody ==
    /\ collector.pc = "body"
    /\ collector' = [collector EXCEPT
                        !.pc = "test",
                        !.spinstr = Tail(@) \o << Head(@) >>,
                        !.line = Some(<< Head(collector.spinstr),
                                         collector.seconds - collector.start >>)]
    /\ CollectorOnly

\* after the loop: the progress line is cleared, echo "Done. ..."
CollectorAfter ==
    /\ collector.pc = "after"
    /\ collector' = [collector EXCEPT !.pc = "wait", !.line = Null,
                                      !.stdout = Append(@, "Done")]
    /\ CollectorOnly

\* wait $SACCT_PID returns once the process has ended
CollectorWait ==
    /\ collector.pc = "wait"
    /\ collector.sacct = "exited"
    /\ collector' = [collector EXCEPT !.pc = "echo"]
    /\ CollectorOnly

\* echo "Saved results to: $OUTFILE"
CollectorEcho ==
    /\ collector.pc = "echo"
    /\ collector' = [collector EXCEPT !.pc = "done", !.stdout = Append(@, "Saved results")]
    /\ CollectorOnly

\* the steps of the script itself
CollectorStep ==
    \/ CollectorSpawn
    \/ CollectorTest
    \/ CollectorBody
    \/ CollectorAfter
    \/ CollectorWait
    \/ CollectorEcho

NextCollector ==
    \/ CollectorStep
    \/ SacctExit
    \/ Tick

SpecCollector == InitCollector /\ [][NextCollector]_vars

\* the shell goes on running the script
SpecCollectorFair == SpecCollector /\ WF_vars(CollectorStep)

-----------------------------------------------------------------------------
(* What the two blobs say, read off the blobs themselves *)

DetailBlob == Flatten(env.scontrolOut)
SummaryBlob == env.sinfoOut

MaxOf(S) == CHOOSE x \in S : \A y \in S : y <= x

\* the node a token belongs to: the value of the last NodeName token before it
OwnerOf(i) ==
    LET ms == { j \in 1..(i - 1) : DetailBlob[j].key = "NodeName" }
    IN  IF ms = {} THEN "" ELSE DetailBlob[MaxOf(ms)].name

TokensOf(node, key) ==
    { i \in 1..Len(DetailBlob) : DetailBlob[i].key = key /\ OwnerOf(i) = node }

\* the detail feed has a value of this key for the node
Present(node, key) == node # "" /\ TokensOf(node, key) # {}

\* ... and this is the value (the last one given)
DetailVal(node, key) == ToNum(DetailBlob[MaxOf(TokensOf(node, key))])

\* memory_available_mb by the precedence of the specification
ExpectedAvail(node) ==
    LET raw == IF Present(node, "FreeMem") THEN DetailVal(node, "FreeMem")
               ELSE IF Present(node, "RealMemory") /\ Present(node, "AllocMem")
                    THEN DetailVal(node, "RealMemory") - DetailVal(node, "AllocMem")
               ELSE 0
    IN  IF raw < 0 THEN 0 ELSE raw

\* memory_total_mb of a summary line by the precedence of the specification
ExpectedTotal(line) ==
    IF Present(Field1(line), "RealMemory") THEN DetailVal(Field1(line), "RealMemory")
    ELSE Field3(line)

\* the rows of one ranking on standard output, in order
RowsOf(kind) == SelectSeq(out, LAMBDA r : r.kind = kind)

\* fields of the k-th line the second awk printed
Pipe2Avail(k) == StrToNum(FieldOf(SplitBar(pipe2[k]), 1))
Pipe2Total(k) == StrToNum(FieldOf(SplitBar(pipe2[k]), 3))

----------------------------------------------------------------------------
(* C1: for every summary line the first pass has read, and every line the   *)
(* second pass has printed, the node's availability is the detail FreeMem   *)
(* value if present, else RealMemory - AllocMem if both are present, else   *)
(* 0, clamped at 0; the memory ranking shows that value.                    *)
C1_AvailPrecedence ==
    /\ \A k \in 1..Len(awk1.nodes) :
         awk1.avail_mem[Field1(sinfoFile[k])] = ExpectedAvail(Field1(sinfoFile[k]))
    /\ \A k \in 1..Len(pipe2) :
         Pipe2Avail(k) = ExpectedAvail(Field1(sinfoFile[k]))
    /\ \A k \in 1..Len(RowsOf("mem_row")) :
         RowsOf("mem_row")[k].a = ExpectedAvail(RowsOf("mem_row")[k].node)

\* n1 has FreeMem=7, RealMemory=4 and AllocMem=1: both passes report 7, not 3
C1_Witness ==
    /\ pc = "done"
    /\ Present("n1", "FreeMem") /\ DetailVal("n1", "FreeMem") = 7
    /\ Present("n1", "RealMemory") /\ Present("n1", "AllocMem")
    /\ DetailVal("n1", "RealMemory") - DetailVal("n1", "AllocMem") = 3
    /\ "n1" \in DOMAIN awk1.avail_mem /\ awk1.avail_mem["n1"] = 7
    /\ \E k \in 1..Len(RowsOf("mem_row")) :
         RowsOf("mem_row")[k].node = "n1" /\ RowsOf("mem_row")[k].a = 7

(* C2: the availability of every reconciled node is never negative: in the  *)
(* first pass's map, in the lines of the second pass and in the ranking.    *)
C2_AvailNonNegative ==
    /\ \A n \in DOMAIN awk1.avail_mem : awk1.avail_mem[n] >= 0
    /\ \A k \in 1..Len(pipe2) : Pipe2Avail(k) >= 0
    /\ \A k \in 1..Len(RowsOf("mem_row")) : RowsOf("mem_row")[k].a >= 0

\* n1 has AllocMem=6 above RealMemory=4 and no FreeMem: both passes report 0
C2_Witness ==
    /\ pc = "done"
    /\ ~Present("n1", "FreeMem")
    /\ Present("n1", "RealMemory") /\ Present("n1", "AllocMem")
    /\ DetailVal("n1", "RealMemory") - DetailVal("n1", "AllocMem") < 0
    /\ "n1" \in DOMAIN awk1.avail_mem /\ awk1.avail_mem["n1"] = 0
    /\ \E k \in 1..Len(RowsOf("mem_row")) :
         RowsOf("mem_row")[k].node = "n1" /\ RowsOf("mem_row")[k].a = 0

(* C3: for every summary line, the resolved total memory is the detail      *)
(* feed's RealMemory when it has one for the node and the line's own total  *)
(* otherwise, in the first pass (realmem_disp, which keeps the value of the *)
(* node's last line) and in the second; every row of the memory ranking     *)
(* shows the resolved total of a summary line of its node.                  *)
C3_ResolvedTotal ==
    /\ \A k \in 1..Len(awk1.nodes) :
         (\A j \in (k + 1)..Len(awk1.nodes) : Field1(sinfoFile[j]) # Field1(sinfoFile[k]))
            => awk1.realmem_disp[Field1(sinfoFile[k])] = ExpectedTotal(sinfoFile[k])
    /\ \A k \in 1..Len(pipe2) : Pipe2Total(k) = ExpectedTotal(sinfoFile[k])
    /\ \A k \in 1..Len(RowsOf("mem_row")) :
         \E j \in 1..Len(sinfoFile) :
            /\ Field1(sinfoFile[j]) = RowsOf("mem_row")[k].node
            /\ RowsOf("mem_row")[k].b = ExpectedTotal(sinfoFile[j])

\* the ranking shows n1 with the detail's RealMemory=4, not the summary's 5,
\* and n2, which has no RealMemory, with the summary's 8
C3_Witness ==
    /\ pc = "done"
    /\ Present("n1", "RealMemory") /\ ~Present("n2", "RealMemory")
    /\ \E k \in 1..Len(SummaryBlob) :
         Field1(SummaryBlob[k]) = "n1" /\ Field3(SummaryBlob[k]) = 5
    /\ \E k \in 1..Len(RowsOf("mem_row")) :
         RowsOf("mem_row")[k].node = "n1" /\ RowsOf("mem_row")[k].b = 4
    /\ \E k \in 1..Len(RowsOf("mem_row")) :
         RowsOf("mem_row")[k].node = "n2" /\ RowsOf("mem_row")[k].b = 8
    /\ awk1.realmem_disp["n1"] = 4 /\ awk1.realmem_disp["n2"] = 8

----------------------------------------------------------------------------
(* The snapshots of a cycle: the per-node maps of the first pass, one entry *)
(* per node name                                                            *)

Snapshots == DOMAIN awk1.idle_cpu

RECURSIVE SumOver(_, _)
\* the sum of f[x] over the x of S
SumOver(S, f) ==
    IF S = {} THEN 0
    ELSE LET x == CHOOSE y \in S : TRUE IN f[x] + SumOver(S \ {x}, f)

RECURSIVE SumSeq(_)
SumSeq(s) == IF s = << >> THEN 0 ELSE Head(s) + SumSeq(Tail(s))

\* the first awk has printed the totals
TotalsPrinted == Len(RowsOf("total_cpus")) > 0
PrintedCpus == RowsOf("total_cpus")[1].a
PrintedMem == RowsOf("total_mem")[1].a

\* the script has ended normally, and so has the process substitution
CycleComplete == pc = "done" /\ exitCode = 0 /\ cpc = "done"

\* node names in lexicographic order
NameBefore(a, b) == BytesLess(Bytes(a), Bytes(b))

\* the top TopK of the snapshots by crit descending, ties by name ascending
ExpectedRanking(crit) ==
    LET D == DOMAIN crit
        Before(a, b) == crit[a] > crit[b] \/ (crit[a] = crit[b] /\ NameBefore(a, b))
        PlaceOf(n) == 1 + Cardinality({ m \in D : Before(m, n) })
        len == IF Cardinality(D) < TopK THEN Cardinality(D) ELSE TopK
    IN  [ i \in 1..len |-> CHOOSE n \in D : PlaceOf(n) = i ]

NodesOf(rows) == [ k \in 1..Len(rows) |-> rows[k].node ]

(* C4: the printed total_cpus is the sum of cpu_total over the snapshots    *)
(* (one per node) and the printed total memory is the sum of their resolved *)
(* memory totals.                                                           *)
C4_TotalsOverSnapshots ==
    TotalsPrinted =>
        /\ PrintedCpus = SumOver(Snapshots, awk1.total_cpu_per_node)
        /\ PrintedMem = SumOver(Snapshots, awk1.realmem_disp)

(* C5: each ranked list has at most 5 entries and is the first 5 of the     *)
(* snapshots ordered by its criterion descending, ties by node name         *)
(* ascending.                                                               *)
C5_TopFive ==
    CycleComplete =>
        /\ Len(RowsOf("cpu_row")) <= TopK /\ Len(RowsOf("mem_row")) <= TopK
        /\ NodesOf(RowsOf("cpu_row")) = ExpectedRanking(awk1.idle_cpu)
        /\ NodesOf(RowsOf("mem_row")) = ExpectedRanking(awk1.avail_mem)

(* C6: every node name of the summary yields exactly one snapshot: one      *)
(* entry among the records the first pass accumulated, at most one row in   *)
(* each ranking, and as many lines fed to the memory ranking as to the CPU  *)
(* ranking.                                                                 *)
C6_OneSnapshotPerNode ==
    CycleComplete =>
        /\ \A n \in Snapshots :
             Cardinality({ k \in 1..Len(awk1.nodes) : awk1.nodes[k] = n }) = 1
        /\ \A i, j \in 1..Len(RowsOf("cpu_row")) :
             i # j => RowsOf("cpu_row")[i].node # RowsOf("cpu_row")[j].node
        /\ \A i, j \in 1..Len(RowsOf("mem_row")) :
             i # j => RowsOf("mem_row")[i].node # RowsOf("mem_row")[j].node
        /\ Len(pipe2) = Len(errPipe.lines)

(* C7: a second run of the script on the same two blobs writes the same     *)
(* standard output as the first.                                            *)
C7_SameOutputTwice ==
    (cycle = 2 /\ pc = "done" /\ cpc \in {"none", "done"}) => out = prevOut

----------------------------------------------------------------------------
\* mktemp and the sort of the second pipeline did not fail
OtherStagesOk == env.mktemp1Rc = 0 /\ env.mktemp2Rc = 0 /\ env.sort2Rc = 0

\* the node names of the summary blob
SummaryNodes == { Field1(SummaryBlob[k]) : k \in 1..Len(SummaryBlob) }

\* nodes the detail blob names with a NodeName marker
DetailNodes == { DetailBlob[i].name : i \in { j \in 1..Len(DetailBlob) : DetailBlob[j].key = "NodeName" } }

CpuTotals == [ k \in 1..Len(SummaryBlob) |-> CpuTok(Field2(SummaryBlob[k]), 4) ]
MemTotals == [ k \in 1..Len(SummaryBlob) |-> ExpectedTotal(SummaryBlob[k]) ]

(* C8: a node that only the detail feed names is in no ranking and in none  *)
(* of the first pass's per-node maps, and the printed totals are the sums   *)
(* over the summary lines alone: cpu_total of each line, and for memory the *)
(* RealMemory of the line's own node or else the line's own total.          *)
C8_DetailOnlyIgnored ==
    /\ \A k \in 1..Len(out) :
         out[k].kind \in {"cpu_row", "mem_row"} => out[k].node \in SummaryNodes
    /\ Snapshots \subseteq SummaryNodes
    /\ TotalsPrinted =>
         PrintedCpus = SumSeq(CpuTotals) /\ PrintedMem = SumSeq(MemTotals)

\* the detail feed gives a RealMemory for n2, the summary has only n1, and
\* the cycle has printed its totals and both rankings
C8_Witness ==
    /\ CycleComplete
    /\ Present("n2", "RealMemory")
    /\ SummaryNodes = {"n1"}
    /\ TotalsPrinted /\ PrintedMem = ExpectedTotal(SummaryBlob[1])
    /\ Len(RowsOf("cpu_row")) = 1 /\ Len(RowsOf("mem_row")) = 1

(* C9: a node of the summary that the detail feed does not name (the detail *)
(* blob may be empty, also because scontrol failed) gets availability 0 and *)
(* the total memory of its summary line, in both passes and in the memory   *)
(* ranking; and when sinfo succeeded the script ends with status 0, having  *)
(* printed the totals and both rankings' headers.                           *)
C9_AbsentFromDetail ==
    /\ \A k \in 1..Len(awk1.nodes) :
         Field1(sinfoFile[k]) \notin DetailNodes =>
            /\ awk1.avail_mem[Field1(sinfoFile[k])] = 0
            /\ (\A j \in (k + 1)..Len(awk1.nodes) : Field1(sinfoFile[j]) # Field1(sinfoFile[k]))
                  => awk1.realmem_disp[Field1(sinfoFile[k])] = Field3(sinfoFile[k])
    /\ \A k \in 1..Len(pipe2) :
         Field1(sinfoFile[k]) \notin DetailNodes =>
            Pipe2Avail(k) = 0 /\ Pipe2Total(k) = Field3(sinfoFile[k])
    /\ \A k \in 1..Len(RowsOf("mem_row")) :
         RowsOf("mem_row")[k].node \notin DetailNodes =>
            /\ RowsOf("mem_row")[k].a = 0
            /\ \E j \in 1..Len(sinfoFile) :
                 /\ Field1(sinfoFile[j]) = RowsOf("mem_row")[k].node
                 /\ Field3(sinfoFile[j]) = RowsOf("mem_row")[k].b
    /\ (env.sinfoRc = 0 /\ OtherStagesOk /\ pc \in {"trap", "done"}) =>
         /\ exitCode = 0
         /\ TotalsPrinted
         /\ Len(RowsOf("mem_hdr")) = 1

\* scontrol failed, the summary names n1: the cycle ended with status 0 and
\* the memory ranking shows n1 with availability 0 and the summary's total 5
C9_Witness ==
    /\ CycleComplete
    /\ env.scontrolRc # 0
    /\ \E k \in 1..Len(RowsOf("mem_row")) :
         /\ RowsOf("mem_row")[k].node = "n1"
         /\ RowsOf("mem_row")[k].a = 0
         /\ RowsOf("mem_row")[k].b = 5
    /\ awk1.avail_mem["n1"] = 0 /\ awk1.realmem_disp["n1"] = 5

\* a summary line is well-formed: three fields, four CPU tokens
WellFormed(line) == line.nf = 3 /\ Len(line.cpus) = 4

WellFormedLines == SelectSeq(SummaryBlob, WellFormed)

(* C10: a malformed summary line is skipped: the first pass accumulates a   *)
(* record, and the second pass prints a line, only for well-formed lines,   *)
(* the totals are the sums over the well-formed lines, every ranked node is *)
(* the node of a well-formed line, and the script still ends with status 0. *)
C10_MalformedSkipped ==
    /\ Len(awk1.nodes) <= Len(WellFormedLines)
    /\ Len(pipe2) <= Len(WellFormedLines)
    /\ TotalsPrinted =>
         PrintedCpus = SumSeq([ k \in 1..Len(WellFormedLines) |->
                                  CpuTok(Field2(WellFormedLines[k]), 4) ])
    /\ \A k \in 1..Len(out) :
         out[k].kind \in {"cpu_row", "mem_row"} =>
            \E j \in 1..Len(WellFormedLines) : Field1(WellFormedLines[j]) = out[k].node
    /\ (env.sinfoRc = 0 /\ OtherStagesOk /\ pc = "done") => exitCode = 0

----------------------------------------------------------------------------
(* The last record the detail blob gives for a node: what follows the last  *)
(* NodeName marker of that node                                             *)

LastMarker(node) ==
    MaxOf({ j \in 1..Len(DetailBlob) :
              DetailBlob[j].key = "NodeName" /\ DetailBlob[j].name = node })

TokensAfterLast(node, key) == { i \in TokensOf(node, key) : i > LastMarker(node) }

LastRecordVal(node, key) == ToNum(DetailBlob[MaxOf(TokensAfterLast(node, key))])

\* availability by the precedence, from the fields of the last record alone
LastRecordAvail(node) ==
    LET has(key) == TokensAfterLast(node, key) # {}
        raw == IF has("FreeMem") THEN LastRecordVal(node, "FreeMem")
               ELSE IF has("RealMemory") /\ has("AllocMem")
                    THEN LastRecordVal(node, "RealMemory") - LastRecordVal(node, "AllocMem")
               ELSE 0
    IN  IF raw < 0 THEN 0 ELSE raw

\* total memory of a summary line, from the fields of the last record alone
LastRecordTotal(line) ==
    IF TokensAfterLast(Field1(line), "RealMemory") # {}
    THEN LastRecordVal(Field1(line), "RealMemory")
    ELSE Field3(line)

(* C11: when the detail blob has more than one NodeName marker for a node,  *)
(* the later one overwrites the node's record: the availability and the     *)
(* total memory of the node, in both passes, come from the memory fields    *)
(* after the last marker alone.                                             *)
C11_LastMarkerWins ==
    /\ \A k \in 1..Len(awk1.nodes) :
         Field1(sinfoFile[k]) \in DetailNodes =>
            /\ awk1.avail_mem[Field1(sinfoFile[k])] = LastRecordAvail(Field1(sinfoFile[k]))
            /\ (\A j \in (k + 1)..Len(awk1.nodes) : Field1(sinfoFile[j]) # Field1(sinfoFile[k]))
                  => awk1.realmem_disp[Field1(sinfoFile[k])] = LastRecordTotal(sinfoFile[k])
    /\ \A k \in 1..Len(pipe2) :
         Field1(sinfoFile[k]) \in DetailNodes =>
            /\ Pipe2Avail(k) = LastRecordAvail(Field1(sinfoFile[k]))
            /\ Pipe2Total(k) = LastRecordTotal(sinfoFile[k])

----------------------------------------------------------------------------
\* the map from node to the last value the blob gives it for a key
DetailMap(key) ==
    [ n \in { m \in Names : Present(m, key) } |-> DetailVal(n, key) ]

\* the scan of the detail blob has run in the second awk
Scanned2 == pc \in {"awk2_main", "final2"}

(* C12: each RealMemory, AllocMem and FreeMem token of the detail blob goes *)
(* to the node of the most recent NodeName token before it, also when that  *)
(* marker is on an earlier line; a memory token before any NodeName token   *)
(* goes to no node.  Both scans end with exactly these maps.                *)
C12_TokenAttribution ==
    /\ awk1.d.real \in { EmptyMap, DetailMap("RealMemory") }
    /\ awk1.d.alloc \in { EmptyMap, DetailMap("AllocMem") }
    /\ awk1.d.freem \in { EmptyMap, DetailMap("FreeMem") }
    /\ pc \in {"awk1_main", "awk2_begin", "awk2_main", "final2"} =>
         /\ awk1.d.real = DetailMap("RealMemory")
         /\ awk1.d.alloc = DetailMap("AllocMem")
         /\ awk1.d.freem = DetailMap("FreeMem")
    /\ Scanned2 =>
         /\ awk2.real = DetailMap("RealMemory")
         /\ awk2.alloc = DetailMap("AllocMem")
         /\ awk2.freem = DetailMap("FreeMem")

\* RealMemory=4 stands before the first marker and goes to no node; AllocMem=1
\* on the second line goes to n1, whose marker is on the first line
C12_Witness ==
    /\ pc = "final2"
    /\ Len(DetailBlob) = 4 /\ Len(env.scontrolOut) = 2
    /\ DetailBlob[1] = MemTok("RealMemory", 4)
    /\ DetailBlob[2] = NodeTok("n1")
    /\ DetailBlob[3] = MemTok("AllocMem", 1)
    /\ awk1.d.real = EmptyMap /\ awk2.real = EmptyMap
    /\ "n1" \in DOMAIN awk1.d.alloc /\ awk1.d.alloc["n1"] = 1
    /\ "n1" \in DOMAIN awk2.alloc /\ awk2.alloc["n1"] = 1

----------------------------------------------------------------------------
\* sinfo or scontrol returned a failure status
FetchFailed == env.sinfoRc # 0 \/ env.scontrolRc # 0

(* C13: a cycle in which sinfo or scontrol failed ends with an error: a     *)
(* status other than 0 and no report (no totals, no ranking rows) on        *)
(* standard output.                                                         *)
C13_FailedFetchExplicit ==
    (pc = "done" /\ FetchFailed) =>
        /\ exitCode # 0
        /\ ~TotalsPrinted
        /\ RowsOf("cpu_row") = << >> /\ RowsOf("mem_row") = << >>

\* how many rows a complete ranking of n entries has
RankLen(n) == IF n < TopK THEN n ELSE TopK

\* the report is whole: totals, and both rankings with all their rows
WholeReport ==
    /\ TotalsPrinted
    /\ Len(RowsOf("cpu_hdr")) = 1 /\ Len(RowsOf("mem_hdr")) = 1
    /\ Len(RowsOf("cpu_row")) = RankLen(Cardinality(Snapshots))
    /\ Len(RowsOf("mem_row")) = RankLen(Len(sinfoFile))

(* C14: once the script and the process substitution have ended, standard   *)
(* output holds either the whole report of a cycle that ended with status 0 *)
(* or nothing.                                                              *)
C14_AtomicReport ==
    (pc = "done" /\ cpc \in {"none", "done"}) =>
        \/ out = << >>
        \/ exitCode = 0 /\ WholeReport

(* C15: a cycle never blocks: in every state the script has ended or one of *)
(* its processes can take a step.                                           *)
C15_NeverBlocked == pc = "done" \/ ENABLED Next

(* C16: when the script has ended, on whichever path, no temporary file is  *)
(* left; the files the awk programs read hold what sinfo and scontrol       *)
(* printed in this cycle, and the awk programs start from empty maps.       *)
C16_NothingSurvives ==
    /\ pc = "done" => tmpFiles = {}
    /\ pc \in {"awk1_begin", "awk1_main", "awk2_begin", "awk2_main", "final2"} =>
         sinfoFile = env.sinfoOut /\ scontrolFile = env.scontrolOut
    /\ pc \in {"start", "mktemp2", "sinfo", "scontrol", "awk1_begin"} =>
         awk1 = Awk1Init /\ awk2 = ScanInit

\* the second mktemp failed after the first had created "$SINFO": the script
\* ended with mktemp's status and the trap removed the file
C16_Witness ==
    /\ pc = "done"
    /\ env.mktemp1Rc = 0 /\ env.mktemp2Rc # 0
    /\ exitCode = env.mktemp2Rc
    /\ tmpFiles = {}
    /\ out = << >>

(* C18: the record the first pass keeps for a summary line has a cpu_total  *)
(* equal to the sum of the line's allocated, idle and other counts.         *)
C18_CpuTotalIsSum ==
    \A k \in 1..Len(awk1.nodes) :
        (\A j \in (k + 1)..Len(awk1.nodes) : Field1(sinfoFile[j]) # Field1(sinfoFile[k]))
          => awk1.total_cpu_per_node[Field1(sinfoFile[k])]
               = CpuTok(Field2(sinfoFile[k]), 1)
                   + awk1.idle_cpu[Field1(sinfoFile[k])]
                   + CpuTok(Field2(sinfoFile[k]), 3)

(* C20: every row of the CPU ranking on standard output stands after the    *)
(* header of the CPU ranking and before the header of the memory ranking,   *)
(* and when the script has ended the process substitution has written all   *)
(* its rows.                                                                *)
C20_CpuRowsInPlace ==
    /\ \A k \in 1..Len(out) :
         out[k].kind = "cpu_row" =>
            /\ \E j \in 1..(k - 1) : out[j].kind = "cpu_hdr"
            /\ \A j \in 1..(k - 1) : out[j].kind # "mem_hdr"
    /\ (pc = "done" /\ exitCode = 0) =>
         Len(RowsOf("cpu_row")) = RankLen(Cardinality(Snapshots))

----------------------------------------------------------------------------
\* the GPU type whose card was clicked: the name that upper-cases to gpuType
CardName(gpuType) == CHOOSE g \in GpuNames : toUpperCase(g) = gpuType

(* C19: every queue request the GPU page sends for a card goes to the       *)
(* documented endpoint of the card's GPU type.                              *)
C19_DocumentedEndpoint ==
    \A i \in 1..Len(gpuNet) :
        gpuNet[i].url = DocumentedEndpoint[CardName(gpuNet[i].gpuType)]

----------------------------------------------------------------------------
\* the text is that of a finite number
Finite(t) == t.text = "number"

(* C17: every usage percentage the client shows is a finite number: the CPU *)
(* utilization of the cluster on the dashboard, and on the nodes page the   *)
(* width of a node's CPU bar and the percentage under it; when the total is *)
(* 0 it is 0.                                                               *)
C17_PercentOfZeroTotal ==
    /\ Finite(calculateClusterStats(dashboard.nodes).cpuUtilization)
    /\ calculateClusterStats(dashboard.nodes).totalCPUs = 0
         => calculateClusterStats(dashboard.nodes).cpuUtilization.scaled = 0
    /\ \A k \in 1..Len(nodesPage.nodes) :
         /\ NodeCard(nodesPage.nodes[k]).width.kind = "num"
         /\ Finite(NodeCard(nodesPage.nodes[k]).pct)
         /\ nodesPage.nodes[k].cpusT = 0 => NodeCard(nodesPage.nodes[k]).pct.scaled = 0

----------------------------------------------------------------------------
(* C21: the two awk passes agree: their scans of the detail blob end with   *)
(* the same maps, and for every summary line the availability and the       *)
(* resolved total memory the second pass prints are those the first pass    *)
(* computed for the line's node (the first pass keeps the total of the      *)
(* node's last line).                                                       *)
C21_PassesAgree ==
    /\ Scanned2 =>
         /\ awk2.real = awk1.d.real
         /\ awk2.alloc = awk1.d.alloc
         /\ awk2.freem = awk1.d.freem
    /\ \A k \in 1..Len(pipe2) :
         /\ Pipe2Avail(k) = awk1.avail_mem[Field1(sinfoFile[k])]
         /\ (\A j \in (k + 1)..Len(sinfoFile) : Field1(sinfoFile[j]) # Field1(sinfoFile[k]))
               => Pipe2Total(k) = awk1.realmem_disp[Field1(sinfoFile[k])]
         /\ Pipe2Total(k) = MemTotal1(Field1(sinfoFile[k]), awk1.d, Field3(sinfoFile[k]))

\* n1 has RealMemory=4 and AllocMem=1 and no FreeMem: both passes computed
\* availability 3 and total 4 for its line
C21_Witness ==
    /\ pc = "final2"
    /\ ~Present("n1", "FreeMem")
    /\ \E k \in 1..Len(pipe2) :
         /\ Field1(sinfoFile[k]) = "n1"
         /\ Pipe2Avail(k) = 3 /\ awk1.avail_mem["n1"] = 3
         /\ Pipe2Total(k) = 4 /\ awk1.realmem_disp["n1"] = 4

----------------------------------------------------------------------------
(* C22: on the Dashboard the answer of an older fetch cycle never replaces  *)
(* the shown answer of a cycle that started later.                          *)
C22_NewerNeverReplaced ==
    [][dashLog'.shownNodes >= dashLog.shownNodes /\ dashLog'.shownJobs >= dashLog.shownJobs]_vars

\* a fetch cycle of the Dashboard ends in this step, with a failure
CycleFails == dashLog'.completed # dashLog.completed /\ ~dashLog'.lastOk

(* C23: on the Dashboard nodes and jobs always hold the answers of one and  *)
(* the same fetch cycle; a cycle that fails changes neither, and only a     *)
(* cycle that succeeds changes them.                                        *)
C23_ReplacedTogether ==
    [][ /\ dashLog'.shownNodes = dashLog'.shownJobs
        /\ CycleFails =>
             dashboard'.nodes = dashboard.nodes /\ dashboard'.jobs = dashboard.jobs
        /\ (dashboard'.nodes # dashboard.nodes \/ dashboard'.jobs # dashboard.jobs) =>
             dashLog'.completed # dashLog.completed /\ dashLog'.lastOk ]_vars

\* a cycle has failed after another had succeeded: the error is shown and the
\* nodes of the earlier cycle are kept
C23_Witness ==
    /\ dashLog.completed >= 2
    /\ ~dashLog.lastOk
    /\ dashLog.shownNodes >= 1 /\ dashLog.shownJobs = dashLog.shownNodes
    /\ dashboard.nodes # << >> /\ dashboard.jobs # << >>
    /\ dashboard.error # Null

(* C24: on the Dashboard, before any fetch cycle has ended loading is true  *)
(* and error is null; from the first end on loading is false, and error is  *)
(* null exactly when the cycle that ended last succeeded.                   *)
C24_ErrorAndLoading ==
    /\ dashLog.completed = 0 => dashboard.loading /\ dashboard.error = Null
    /\ dashLog.completed > 0 =>
         /\ ~dashboard.loading
         /\ dashboard.error = Null <=> dashLog.lastOk

\* a cycle succeeded while a Retry, clicked on the error of an earlier failure,
\* is still in flight: the error is cleared, loading stays false
C24_Witness ==
    /\ dashLog.completed >= 2
    /\ dashLog.lastOk
    /\ dashboard.error = Null /\ ~dashboard.loading
    /\ \E i \in 1..Len(dashNet) : dashNet[i].by = "retry"

----------------------------------------------------------------------------
\* the keys of the GPU page's maps: the upper-cased types of the cards
GpuKeys == { toUpperCase(t) : t \in ServerTypes }

\* a queue fetch for the key is in flight
InFlightFor(g) == \E i \in 1..Len(gpuNet) : gpuNet[i].gpuType = g

(* C25: on the GPU page loadingQueue[g] is true exactly while a queue fetch *)
(* for g is in flight.                                                      *)
C25_LoadingWhileInFlight ==
    \A g \in GpuKeys :
        (g \in DOMAIN gpuPage.loadingQueue /\ gpuPage.loadingQueue[g]) <=> InFlightFor(g)

\* this step sends a queue request
QueueFetchIssued == Len(gpuNet') = Len(gpuNet) + 1

\* this step expands the card with key g
Expands(g) == gpuPage'.expandedGPU = Some(g) /\ gpuPage.expandedGPU # Some(g)

(* C26: on the GPU page at most one type is expanded; a queue request is    *)
(* sent only by a step that expands a card whose type has no queue data,    *)
(* and for that type; every expand of a type without queue data sends one.  *)
C26_FetchOnlyWithoutData ==
    [][ /\ Len(gpuPage'.expandedGPU) <= 1
        /\ QueueFetchIssued =>
             /\ gpuNet'[Len(gpuNet')].gpuType \notin DOMAIN gpuPage.queueData
             /\ Expands(gpuNet'[Len(gpuNet')].gpuType)
        /\ \A g \in GpuKeys :
             (Expands(g) /\ g \notin DOMAIN gpuPage.queueData) =>
                 QueueFetchIssued /\ gpuNet'[Len(gpuNet')].gpuType = g ]_vars

\* the queue of one type is loaded and no request for it is in flight; the
\* card of another type is expanded and its queue is being fetched
C26_Witness ==
    \E g, h \in GpuKeys :
        /\ g # h
        /\ g \in DOMAIN gpuPage.queueData /\ ~InFlightFor(g)
        /\ gpuPage.expandedGPU = Some(h)
        /\ h \notin DOMAIN gpuPage.queueData /\ InFlightFor(h)

----------------------------------------------------------------------------
(* C27: in the AI assistant, whenever the wait-time modal is closed,        *)
(* estimatedWait is null, also when the modal was closed while a prediction *)
(* was in flight and the response came afterwards.                          *)
C27_ClosedModalNoEstimate ==
    ~aiPage.showWaitTimeModal => aiPage.estimatedWait = Null

----------------------------------------------------------------------------
\* the optimize requests in flight
OptimizeInFlight == Len(SelectSeq(aiNet, LAMBDA k : k = "optimize"))

\* the messages of the user, and the replies of handleSend
UserMessages == SelectSeq(aiPage.messages, LAMBDA x : x.role = "user")

ReplyKinds == {"answer", "error", "connection_error"}

Replies ==
    SelectSeq(aiPage.messages, LAMBDA x : x.role = "assistant" /\ x.kind \in ReplyKinds)

\* between the steps: isTyping says that a request is in flight, there is at
\* most one, and the messages pair up with the sends
C28_Paired ==
    /\ OptimizeInFlight <= 1
    /\ aiPage.isTyping <=> OptimizeInFlight = 1
    /\ Len(UserMessages) = Len(Replies) + OptimizeInFlight
    /\ \A i \in 1..Len(UserMessages) : trim(UserMessages[i].text) # << >>

\* a step: a send appends the user's message and nothing else, a reply appends
\* one assistant message; nothing else appends either or moves isTyping
C28_Step ==
    LET sends == ~aiPage.isTyping /\ aiPage'.isTyping
        replies == aiPage.isTyping /\ ~aiPage'.isTyping
        old == aiPage.messages
        new == aiPage'.messages
        last == new[Len(new)]
    IN  /\ sends =>
            /\ trim(aiPage.input) # << >>
            /\ new = Append(old, ChatMessage("user", "input", aiPage.input))
            /\ aiNet' = Append(aiNet, "optimize")
        /\ replies =>
            /\ Len(new) = Len(old) + 1 /\ SubSeq(new, 1, Len(old)) = old
            /\ last.role = "assistant" /\ last.kind \in ReplyKinds
            /\ last.kind = "answer" => last.text # SorryText
            /\ last.text # << >> \/ last.kind = "connection_error"
        /\ (aiPage'.isTyping = aiPage.isTyping) =>
            /\ Len(SelectSeq(new, LAMBDA x : x.role = "user")) = Len(UserMessages)
            /\ Len(SelectSeq(new, LAMBDA x : x.role = "assistant" /\ x.kind \in ReplyKinds))
                 = Len(Replies)

(* C28: in the AI assistant every send of a non-blank input appends exactly *)
(* one user message and, once the optimize request resolves or rejects,     *)
(* exactly one assistant message (the answer, the error text or the         *)
(* connection-error text); isTyping is true from the send until the reply   *)
(* and false afterwards, and at most one optimize request is in flight.     *)
C28_OneReplyPerSend == []C28_Paired /\ [][C28_Step]_vars

\* two sends have been answered, one by a rejection, with a failed prediction
\* appending its message in between
C28_Witness ==
    /\ aiLog.replies = 2 /\ ~aiPage.isTyping
    /\ Len(aiPage.messages) = 6
    /\ aiPage.messages[3].kind = "estimate_failed"
    /\ aiPage.messages[6].kind = "connection_error"

----------------------------------------------------------------------------
\* the files as they were before the run: the run adds or replaces nothing
\* but the output file, so they are read off the initial choice
\* the lines of a file after its first whose third field is COMPLETED
CompletedLater(lines) ==
    SelectSeq(lines, LAMBDA l :
        LET fs == SplitBar(l) IN Len(fs) >= 3 /\ fs[3] = Completed)

\* what the output must be for an input
ExpectedOutput(lines) ==
    IF lines = << >> THEN << >>
    ELSE << Head(lines) >> \o CompletedLater(Tail(lines))

(* C29: the job-history filter writes an output file consisting of the      *)
(* first input line followed by exactly the later input lines whose third   *)
(* pipe-delimited field equals COMPLETED, in input order; the input file is *)
(* unchanged; and with no argument, or an argument that names no file, it   *)
(* exits with status 1 and creates no output file.                          *)
C29_HeaderAndCompleted ==
    [][ /\ (filter.pc = "awk" /\ filter'.pc # "awk") =>
            /\ OutputFile(filter.arg) \in DOMAIN filter'.files
            /\ filter'.files[OutputFile(filter.arg)] =
                 RegularFile(ExpectedOutput(filter.files[filter.arg].lines))
        /\ \A n \in DOMAIN filter.files :
             n # OutputFile(filter.arg) =>
                 n \in DOMAIN filter'.files /\ filter'.files[n] = filter.files[n]
        /\ filter'.arg = filter.arg
        /\ filter.arg \in DOMAIN filter.files =>
            filter'.files[filter.arg] = filter.files[filter.arg]
        /\ (filter'.pc = "done" /\ ~IsRegularFile(filter.files, filter.arg)) =>
            /\ filter'.exit = 1
            /\ filter'.files = filter.files
        /\ (filter'.pc = "done" /\ IsRegularFile(filter.files, filter.arg)) =>
            filter'.exit = 0 ]_vars

\* a run has ended with status 0: the input has a header, a COMPLETED job
\* and another line, and the output replaced an older output file
C29_Witness ==
    /\ filter.pc = "done" /\ filter.exit = 0
    /\ filter.arg = << "b" >>
    /\ Len(filter.files[filter.arg].lines) = 3
    /\ filter.files[filter.arg].lines[1] # CompletedJob
    /\ filter.files[OutputFile(filter.arg)].lines
         = << filter.files[filter.arg].lines[1], CompletedJob >>

----------------------------------------------------------------------------
\* the collector is in its progress loop
InLoop == collector.pc \in {"test", "body"}

Terminated == collector.sacct = "exited"

\* a line has been printed
Printed(l) == \E i \in 1..Len(collector.stdout) : collector.stdout[i] = l

\* where the script is once the loop has ended
C30_AfterLoop ==
    /\ collector.pc \in {"after", "wait", "echo", "done"} => Terminated
    /\ Printed("Saved results") => Terminated /\ Printed("Done")
    /\ collector.pc = "done" => Printed("Saved results")

\* a pass of the loop starts only with the process alive, and the test
\* that follows the end of the process leaves the loop
C30_Test ==
    /\ (collector.pc = "test" /\ collector'.pc = "body") => collector.sacct = "running"
    /\ (collector.pc = "test" /\ collector'.pc # "test" /\ Terminated) =>
            collector'.pc = "after"
    /\ (InLoop /\ collector'.pc = "after") => Terminated
    /\ Terminated => collector'.sacct = "exited" /\ collector'.rc = collector.rc

(* C30: in the job-history collector the progress loop runs only while the  *)
(* background sacct process is alive and ends once the process has          *)
(* terminated, and the 'Saved results' line is printed only after sacct has *)
(* terminated, with status 0 or not.                                        *)
C30_LoopFollowsSacct ==
    /\ []C30_AfterLoop
    /\ [][C30_Test]_vars
    /\ (InLoop /\ Terminated) ~> ~InLoop
    /\ Terminated ~> Printed("Saved results")

\* sacct failed while the spinner had turned at least once, and the script
\* has printed its last line
C30_Witness ==
    /\ collector.pc = "done"
    /\ collector.sacct = "exited" /\ collector.rc = 1
    /\ collector.spinstr # SpinStr
    /\ Printed("Saved results")

=============================================================================
